---- MODULE Spec2Model ----
(***************************************************************************)
(* Phoenix Outbreak Intelligence: the workflow orchestrator                *)
(* (src/agents/orchestrator/workflow.py, class PhoenixWorkflow).           *)
(*                                                                         *)
(* execute_full_analysis is a coroutine.  Under asyncio a task runs        *)
(* without interruption until it awaits something that really suspends;    *)
(* the awaits on the class's own helper coroutines never do, so the only   *)
(* suspension points are the four collaborator calls.  Each action below   *)
(* is one uninterrupted segment of the coroutine: from its start, or from  *)
(* the moment a collaborator call returns or raises, to the next           *)
(* collaborator call or to the end.                                        *)
(*                                                                         *)
(* Python values: a dict is a function over its keys, a list a sequence,   *)
(* a text a sequence of one-character strings, None is PyNone.  Floats are *)
(* kept as scaled integers (risk_score in tenths, confidence in            *)
(* hundredths).  The ISO timestamps the code stores next to the stage and  *)
(* the status (stage_timestamp, completion_time, error_time) are left out  *)
(* of the contexts: nothing in the program reads them.                     *)
(***************************************************************************)
EXTENDS Integers, Sequences, FiniteSets, TLC

\* ------------------------------------------------------------------ bounds
\* The wall clock, in whole seconds, runs from 0 to MaxClock.
MaxClock == 1
\* Number of executions of execute_full_analysis that may be started.
MaxExecutions == 2

Executions == 1..MaxExecutions

\* ------------------------------------------------------- python primitives
PyNone == [type |-> "NoneType"]
PyDict(d) == [type |-> "dict", items |-> d]
IsMapping(v) == v.type = "dict"

EmptyDict == [k \in {} |-> 0]

\* d.get(k, default) on a dict given as a function
Get(d, k, default) == IF k \in DOMAIN d THEN d[k] ELSE default

\* d[k] = v
SetItem(d, k, v) == [x \in (DOMAIN d) \cup {k} |-> IF x = k THEN v ELSE d[x]]

\* all(...) over a dict's values
All(d) == \A k \in DOMAIN d : d[k]

\* str.lower(), for the letters of the texts of this model
UpperCase ==
    <<"A","B","C","D","E","F","G","H","I","J","K","L","M",
      "N","O","P","Q","R","S","T","U","V","W","X","Y","Z">>
LowerCase ==
    <<"a","b","c","d","e","f","g","h","i","j","k","l","m",
      "n","o","p","q","r","s","t","u","v","w","x","y","z">>
LowerOf ==
    [c \in { UpperCase[i] : i \in 1..Len(UpperCase) } |->
         LowerCase[CHOOSE i \in 1..Len(UpperCase) : UpperCase[i] = c]]
LowerChar(c) == IF c \in DOMAIN LowerOf THEN LowerOf[c] ELSE c
Lower(s) == [i \in 1..Len(s) |-> LowerChar(s[i])]

\* keyword in text
Contains(text, keyword) ==
    \E i \in 0..(Len(text) - Len(keyword)) :
        \A j \in 1..Len(keyword) : text[i + j] = keyword[j]

\* A str value (None is PyNone); its characters are a sequence.
PyStr(chars) == [type |-> "str", chars |-> chars]
IsText(v) == v.type = "str"

LetterSet == { UpperCase[i] : i \in 1..Len(UpperCase) }
                 \cup { LowerCase[i] : i \in 1..Len(LowerCase) }
IsLetter(c) == c \in LetterSet

\* \w of the regular expressions
IsWordChar(c) ==
    IsLetter(c) \/ c \in {"0","1","2","3","4","5","6","7","8","9","_"}

\* \b before the word character at place i / after the one at place j
WordStart(text, i) == IsWordChar(text[i]) /\ (i = 1 \/ ~IsWordChar(text[i - 1]))
WordEnd(text, j) == IsWordChar(text[j]) /\ (j = Len(text) \/ ~IsWordChar(text[j + 1]))

\* text[i : i + len(word)] == word
MatchesAt(word, text, i) ==
    /\ i + Len(word) - 1 <= Len(text)
    /\ \A j \in 1..Len(word) : text[i + j - 1] = word[j]

\* re.search(r'\bword\b', text), for a word made of word characters
SearchWord(word, text) ==
    \E i \in 1..(Len(text) - Len(word) + 1) :
        MatchesAt(word, text, i) /\ WordStart(text, i)
            /\ WordEnd(text, i + Len(word) - 1)

\* str.strip(): the text without its leading and trailing white space
Strip(text) ==
    LET inked == { i \in 1..Len(text) : text[i] # " " }
    IN  IF inked = {} THEN << >>
        ELSE SubSeq(text,
                    CHOOSE i \in inked : \A k \in inked : i <= k,
                    CHOOSE j \in inked : \A k \in inked : k <= j)

\* ------------------------------------------------------------ the stages
INITIALIZATION == "initialization"
DATA_COLLECTION == "data_collection"
RISK_ASSESSMENT == "risk_assessment"
GUIDANCE_GENERATION == "guidance_generation"
RESOURCE_PLANNING == "resource_planning"
REPORT_COMPILATION == "report_compilation"
FINALIZATION == "finalization"

\* class WorkflowStage, in declaration order
WorkflowStage ==
    << INITIALIZATION, DATA_COLLECTION, RISK_ASSESSMENT, GUIDANCE_GENERATION,
       RESOURCE_PLANNING, REPORT_COMPILATION, FINALIZATION >>

StageIndex(s) == CHOOSE i \in 1..Len(WorkflowStage) : WorkflowStage[i] = s

\* ------------------------------------------------------------------ texts
\* Insight texts a risk provider may return.
InsightIcu == <<"I","C","U"," ","u","p">>
InsightRumor == <<"R","u","m","o","r">>
InsightClaim == <<"n","e","w"," ","C","L","A","I","M","S">>

\* str(None), and None where a text is expected
NoneText == "None"

\* Arguments execute_full_analysis is called with.
Locations == {"California", "Texas"}
Audiences == {"general_public"}

\* --------------------------------------------------- collaborator outcomes
\* A collaborator call ends by raising an exception or by returning a value.
Raise(msg) == [kind |-> "raise", msg |-> msg, value |-> PyNone]
Return(v) == [kind |-> "return", msg |-> "", value |-> v]

\* What DataIntelligenceAgent.analyze_outbreak_risk returns.
RiskPayloadAgent(location) ==
    [ location |-> location,
      risk_score |-> 720,
      risk_level |-> "HIGH",
      trends |-> [cases |-> [growth_rate |-> 25]],
      insights |-> <<InsightIcu>>,
      confidence |-> 80 ]

\* A payload of the shape the provider contract names: no location key.
RiskPayloadContract ==
    [ risk_score |-> 100,
      risk_level |-> "LOW",
      trends |-> [cases |-> [growth_rate |-> 0]],
      insights |-> <<InsightRumor, InsightIcu>>,
      confidence |-> 90 ]

\* A payload with more insights that hold a rumor indicator than
\* validate_rumors is given, and one in between that holds none.
RiskPayloadRumors(location) ==
    [ location |-> location,
      risk_score |-> 400,
      risk_level |-> "MODERATE",
      trends |-> [cases |-> [growth_rate |-> 10]],
      insights |-> <<InsightClaim, InsightIcu, InsightRumor, InsightRumor, InsightClaim>>,
      confidence |-> 70 ]

\* How a collaborator call may end.  With every = TRUE a provider raises,
\* returns None, or returns a payload; with every = FALSE the risk provider
\* raises or returns what the repository's agent returns, and the guidance and
\* resource providers return what their agents return.
RiskOutcomes(location, every) ==
    { Raise("risk provider down"), Return(PyDict(RiskPayloadAgent(location))) }
    \cup ( IF every
           THEN { Return(PyNone), Return(PyDict(RiskPayloadContract)),
                  Return(PyDict(RiskPayloadRumors(location))) }
           ELSE {} )

RumorOutcomes(rumors, location) ==
    { Raise("rumor provider down"),
      Return(PyDict([location |-> location, rumors_checked |-> Len(rumors)])) }

GuidancePayload(risk_analysis, location, target_audience) ==
    [ location |-> location,
      target_audience |-> target_audience,
      risk_context |-> [risk_level |-> Get(risk_analysis, "risk_level", "LOW")],
      key_recommendations |-> <<"Wear masks indoors">> ]

GuidanceOutcomes(risk_analysis, location, target_audience, every) ==
    { Return(PyDict(GuidancePayload(risk_analysis, location, target_audience))) }
    \cup ( IF every
           THEN { Raise("guidance provider down"), Return(PyNone) }
           ELSE {} )

ResourcePayload(risk_analysis, location) ==
    [ location |-> location,
      resource_projections |->
          << <<"icu_beds", [priority |-> "CRITICAL", utilization_projected |-> 95]>> >>,
      procurement_recommendations |-> << >> ]

ResourceOutcomes(risk_analysis, location, every) ==
    { Return(PyDict(ResourcePayload(risk_analysis, location))) }
    \cup ( IF every
           THEN { Raise("resource provider down"), Return(PyNone) }
           ELSE {} )

\* ------------------------------------------------------------------- state
VARIABLES
    agents,          \* data_agent, guidance_agent, resource_agent: set or None
    workflow_state,  \* self.workflow_state: workflow id -> context
    now,             \* the wall clock, in whole seconds
    pc,              \* where each execution of execute_full_analysis stands
    local,           \* each execution's local variables
    outcome,         \* what each execution gave its caller
    trace,           \* history: what each execution did, in order
    creator,         \* history: the execution whose context is stored under each id
    solo,            \* the run is one execution against every provider behaviour
                     \* (TRUE), or concurrent executions against the
                     \* repository's agents, whose risk analysis may raise (FALSE)
    call,            \* the call of a PhoenixRouter method under way, if any
    reply            \* what the latest call of get_workflow_status or of a
                     \* PhoenixRouter method returned; forgotten at the
                     \* program's next step

vars ==
    << agents, workflow_state, now, pc, local, outcome, trace, creator, solo,
       call, reply >>

\* The variables of the workflow, which the router never touches.
workflowVars ==
    << agents, workflow_state, now, pc, local, outcome, trace, creator, solo >>

NoCall == [op |-> "none"]
NoReply == [op |-> "none"]

NoLocal ==
    [ workflow_id |-> -1, location |-> NoneText, target_audience |-> NoneText,
      risk_analysis |-> PyNone, rumors_to_check |-> << >>,
      guidance_results |-> PyNone ]

NoOutcome == [kind |-> "none", error |-> "", report |-> PyNone]
Returned(report) == [kind |-> "report", error |-> "", report |-> PyDict(report)]
Raised(msg) == [kind |-> "raised", error |-> msg, report |-> PyNone]

\* One entry of an execution's history.
Event(op, what, arg) == [op |-> op, what |-> what, arg |-> arg]
StageEvent(stage) == Event("stage", stage, PyNone)
CallEvent(who, arg) == Event("call", who, arg)
EndEvent(who) == Event("end", who, PyNone)

\* ------------------------------------------------- the workflow's helpers
\* workflow_id = f"PHX-WF-{datetime.now().strftime('%Y%m%d-%H%M%S')}": one id
\* per second of the clock; the id is written as the second it names.
WorkflowId(t) == t

ConfigurationErrorMessage == "Not all required agents are available"

\* A faulty variant of NewContext: the context is created with the stage
\* INITIALIZATION.
NewContextWithStage(workflow_id, location, t, ag) ==
    [ workflow_id |-> workflow_id,
      location |-> location,
      start_time |-> t,
      current_stage |-> INITIALIZATION,
      agents_available |->
          [ data_intelligence |-> ag.data_agent,
            public_guidance |-> ag.guidance_agent,
            resource_planning |-> ag.resource_agent ] ]

\* _initialize_workflow: the context it builds
NewContext(workflow_id, location, t, ag) ==
    [ workflow_id |-> workflow_id,
      location |-> location,
      start_time |-> t,
      agents_available |->
          [ data_intelligence |-> ag.data_agent,
            public_guidance |-> ag.guidance_agent,
            resource_planning |-> ag.resource_agent ] ]

\* _initialize_workflow: self.workflow_state[workflow_id] = context
InitializeWorkflow(ws, workflow_id, location, t, ag) ==
    SetItem(ws, workflow_id, NewContext(workflow_id, location, t, ag))

\* A faulty variant of AgentsMissing: any(...) in place of all(...).
AgentsMissingIfNone(context) ==
    \A k \in DOMAIN context.agents_available : ~context.agents_available[k]

\* _initialize_workflow: the validation that follows the store
AgentsMissing(context) == ~All(context.agents_available)

\* _update_stage
UpdateStage(ws, workflow_id, stage) ==
    IF workflow_id \in DOMAIN ws
    THEN SetItem(ws, workflow_id, SetItem(ws[workflow_id], "current_stage", stage))
    ELSE ws

\* _finalize_workflow
FinalizeWorkflow(ws, workflow_id) ==
    IF workflow_id \in DOMAIN ws
    THEN SetItem(ws, workflow_id, SetItem(ws[workflow_id], "status", "COMPLETED"))
    ELSE ws

\* A faulty variant of HandleWorkflowError: the status is set, the message is
\* not recorded.
HandleWorkflowErrorNoMessage(ws, workflow_id, error) ==
    IF workflow_id \in DOMAIN ws
    THEN SetItem(ws, workflow_id, SetItem(ws[workflow_id], "status", "FAILED"))
    ELSE ws

\* _handle_workflow_error
HandleWorkflowError(ws, workflow_id, error) ==
    IF workflow_id \in DOMAIN ws
    THEN SetItem(ws, workflow_id,
             SetItem(SetItem(ws[workflow_id], "status", "FAILED"), "error", error))
    ELSE ws

\* A faulty variant of GetWorkflowStatus: self.workflow_state[workflow_id],
\* which raises KeyError for an id that is not in the store.
GetWorkflowStatusSubscript(ws, workflow_id) ==
    IF workflow_id \in DOMAIN ws THEN ws[workflow_id] ELSE Raise("KeyError")

\* get_workflow_status
GetWorkflowStatus(ws, workflow_id) == Get(ws, workflow_id, PyNone)

\* _extract_potential_rumors
rumor_keywords ==
    << <<"r","u","m","o","r">>,
       <<"c","l","a","i","m">>,
       <<"r","e","p","o","r","t">>,
       <<"s","o","c","i","a","l"," ","m","e","d","i","a">>,
       <<"u","n","v","e","r","i","f","i","e","d">> >>

IsPotentialRumor(insight) ==
    \E k \in 1..Len(rumor_keywords) : Contains(Lower(insight), rumor_keywords[k])

RECURSIVE FilterRumors(_)
FilterRumors(insights) ==
    IF insights = << >> THEN << >>
    ELSE IF IsPotentialRumor(Head(insights))
         THEN <<Head(insights)>> \o FilterRumors(Tail(insights))
         ELSE FilterRumors(Tail(insights))

MaxRumors == 3

\* A faulty variant of ExtractPotentialRumors: every potential rumor is
\* passed on.
ExtractPotentialRumorsUncapped(insights) == FilterRumors(insights)

ExtractPotentialRumors(insights) ==
    LET rumors == FilterRumors(insights)
    IN  SubSeq(rumors, 1, IF Len(rumors) < MaxRumors THEN Len(rumors) ELSE MaxRumors)

\* The fallbacks of the three stage executors.
FallbackRiskScore == 250
FallbackConfidence == 50
FallbackInsight == <<"Risk assessment failed - using default moderate risk level">>

RiskFallback(location, error) ==
    [ location |-> location,
      risk_score |-> FallbackRiskScore,
      risk_level |-> "MODERATE",
      confidence |-> FallbackConfidence,
      error |-> error,
      insights |-> <<FallbackInsight>> ]

GuidanceFallback(risk_analysis, location, target_audience, error) ==
    [ location |-> location,
      target_audience |-> target_audience,
      risk_level |-> Get(risk_analysis, "risk_level", "MODERATE"),
      key_recommendations |->
          << "Follow local health department guidance",
             "Monitor official health communications",
             "Contact healthcare providers with questions" >>,
      error |-> error ]

ResourceFallback(risk_analysis, location, error) ==
    [ location |-> location,
      risk_context |-> risk_analysis,
      status |-> "UNABLE_TO_ASSESS",
      recommendations |-> <<"Contact local emergency management">>,
      error |-> error ]

\* str(e) of the exceptions python raises on a value that is no mapping
NoGetMessage == "'NoneType' object has no attribute 'get'"
NotIterableMessage == "argument of type 'NoneType' is not iterable"

\* A faulty variant of RiskStep: a call that raised is issued again.
RiskStepRetry(location, out) ==
    IF out.kind = "raise"
    THEN [ next |-> "risk", risk_analysis |-> PyNone, rumors_to_check |-> << >> ]
    ELSE IF ~IsMapping(out.value)
    THEN [ next |-> "guidance",
           risk_analysis |-> PyDict(RiskFallback(location, NoGetMessage)),
           rumors_to_check |-> << >> ]
    ELSE LET insights == Get(out.value.items, "insights", << >>)
             rumors_to_check == ExtractPotentialRumors(insights)
         IN  [ next |-> IF rumors_to_check # << >> THEN "rumor" ELSE "guidance",
               risk_analysis |-> out.value,
               rumors_to_check |-> rumors_to_check ]

\* --------------------------------------------------- the stage executors
\* _execute_risk_assessment, from the end of the analyze_outbreak_risk call
\* to its return or to the validate_rumors call.  next names what follows:
\* the rumor call, or the return to execute_full_analysis ("guidance").
RiskStep(location, out) ==
    IF out.kind = "raise"
    THEN [ next |-> "guidance",
           risk_analysis |-> PyDict(RiskFallback(location, out.msg)),
           rumors_to_check |-> << >> ]
    ELSE IF ~IsMapping(out.value)
    THEN \* risk_analysis.get raises AttributeError inside the try
         [ next |-> "guidance",
           risk_analysis |-> PyDict(RiskFallback(location, NoGetMessage)),
           rumors_to_check |-> << >> ]
    ELSE LET insights == Get(out.value.items, "insights", << >>)
             rumors_to_check == ExtractPotentialRumors(insights)
         IN  [ next |-> IF rumors_to_check # << >> THEN "rumor" ELSE "guidance",
               risk_analysis |-> out.value,
               rumors_to_check |-> rumors_to_check ]

\* A faulty variant of RumorStep: a failed rumor validation is ignored and the
\* risk result is kept.
RumorStepKeepsRisk(location, risk_analysis, out) ==
    IF out.kind = "raise"
    THEN [ next |-> "guidance", risk_analysis |-> risk_analysis ]
    ELSE [ next |-> "guidance",
           risk_analysis |->
               PyDict(SetItem(risk_analysis.items, "rumor_validation", out.value)) ]

\* _execute_risk_assessment, from the end of the validate_rumors call
RumorStep(location, risk_analysis, out) ==
    IF out.kind = "raise"
    THEN [ next |-> "guidance",
           risk_analysis |-> PyDict(RiskFallback(location, out.msg)) ]
    ELSE [ next |-> "guidance",
           risk_analysis |->
               PyDict(SetItem(risk_analysis.items, "rumor_validation", out.value)) ]

\* A faulty variant of GuidanceStep: the except clause logs the error and returns nothing.
GuidanceStepNoReturn(risk_analysis, location, target_audience, out) ==
    IF out.kind = "raise"
    THEN [ next |-> "resource", guidance |-> PyNone ]
    ELSE [ next |-> "resource", guidance |-> out.value ]

\* _generate_public_guidance, from the end of the collaborator call
GuidanceStep(risk_analysis, location, target_audience, out) ==
    IF out.kind = "raise"
    THEN [ next |-> "resource",
           guidance |-> PyDict(GuidanceFallback(risk_analysis.items, location,
                                                target_audience, out.msg)) ]
    ELSE [ next |-> "resource", guidance |-> out.value ]

\* A faulty variant of ResourceStep: the result is annotated with the (empty)
\* error message on success too.
ResourceStepAnnotates(risk_analysis, location, out) ==
    IF out.kind = "raise"
    THEN [ next |-> "compile",
           resource_report |->
               PyDict(ResourceFallback(risk_analysis, location, out.msg)) ]
    ELSE [ next |-> "compile",
           resource_report |->
               IF IsMapping(out.value)
               THEN PyDict(SetItem(out.value.items, "error", out.msg))
               ELSE out.value ]

\* _generate_resource_report, from the end of the collaborator call
ResourceStep(risk_analysis, location, out) ==
    IF out.kind = "raise"
    THEN [ next |-> "compile",
           resource_report |->
               PyDict(ResourceFallback(risk_analysis, location, out.msg)) ]
    ELSE [ next |-> "compile", resource_report |-> out.value ]

\* ------------------------------------------------------ report compilation
\* _create_intelligence_summary: the threat level table
ThreatLevel(risk_level) ==
    IF risk_level = "CRITICAL" THEN "IMMEDIATE ACTION REQUIRED"
    ELSE IF risk_level = "HIGH" THEN "ENHANCED RESPONSE NEEDED"
    ELSE IF risk_level = "MODERATE" THEN "INCREASED VIGILANCE"
    ELSE "ROUTINE MONITORING"

\* list[:n]
Take(list, n) == SubSeq(list, 1, IF Len(list) < n THEN Len(list) ELSE n)

RECURSIVE CriticalShortages(_)
CriticalShortages(projections) ==
    IF projections = << >> THEN << >>
    ELSE IF Get(Head(projections)[2], "priority", NoneText) = "CRITICAL"
         THEN <<Head(projections)[1]>> \o CriticalShortages(Tail(projections))
         ELSE CriticalShortages(Tail(projections))

MaxInsights == 2
MaxFindings == 5

\* A faulty variant of ExtractKeyFindings: one finding per critical
\* shortage in place of one finding that names them all.
ExtractKeyFindingsPerShortage(risk_analysis, guidance, resource_report) ==
    LET risk_level == Get(risk_analysis, "risk_level", "UNKNOWN")
        insights == Get(risk_analysis, "insights", << >>)
        critical_shortages ==
            IF "resource_projections" \in DOMAIN resource_report
            THEN CriticalShortages(resource_report["resource_projections"])
            ELSE << >>
        findings ==
            << <<"Outbreak risk level: ", risk_level>> >>
            \o Take(insights, MaxInsights)
            \o [ i \in 1..Len(critical_shortages) |->
                     <<"Critical resource shortages: ", critical_shortages[i]>> ]
    IN  Take(findings, MaxFindings)

\* _extract_key_findings, on a resource report that is a mapping
ExtractKeyFindings(risk_analysis, guidance, resource_report) ==
    LET risk_level == Get(risk_analysis, "risk_level", "UNKNOWN")
        insights == Get(risk_analysis, "insights", << >>)
        critical_shortages ==
            IF "resource_projections" \in DOMAIN resource_report
            THEN CriticalShortages(resource_report["resource_projections"])
            ELSE << >>
        findings ==
            << <<"Outbreak risk level: ", risk_level>> >>
            \o Take(insights, MaxInsights)
            \o ( IF critical_shortages # << >>
                 THEN << <<"Critical resource shortages: ">> \o critical_shortages >>
                 ELSE << >> )
    IN  Take(findings, MaxFindings)

\* A faulty variant of ExtractTrendIndicator: a growth rate of exactly 0.2
\* counts as rapidly increasing, and one of exactly 0.1 as increasing.
ExtractTrendIndicatorInclusive(risk_analysis, trend_type) ==
    LET trends == Get(risk_analysis, "trends", EmptyDict)
        trend_data == Get(trends, trend_type, EmptyDict)
        growth_rate == Get(trend_data, "growth_rate", 0)
    IN  IF growth_rate >= 20 THEN "RAPIDLY INCREASING"
        ELSE IF growth_rate >= 10 THEN "INCREASING"
        ELSE IF growth_rate > -10 THEN "STABLE"
        ELSE "DECREASING"

\* _extract_trend_indicator; growth rates are in hundredths, and the labels
\* are written without their leading pictograph
ExtractTrendIndicator(risk_analysis, trend_type) ==
    LET trends == Get(risk_analysis, "trends", EmptyDict)
        trend_data == Get(trends, trend_type, EmptyDict)
        growth_rate == Get(trend_data, "growth_rate", 0)
    IN  IF growth_rate > 20 THEN "RAPIDLY INCREASING"
        ELSE IF growth_rate > 10 THEN "INCREASING"
        ELSE IF growth_rate > -10 THEN "STABLE"
        ELSE "DECREASING"

\* readiness_map.get(risk_level, "UNKNOWN"), the labels without their
\* leading pictograph
ReadinessLabel(risk_level) ==
    CASE risk_level = "CRITICAL" -> "EMERGENCY PROTOCOLS"
      [] risk_level = "HIGH" -> "ENHANCED READINESS"
      [] risk_level = "MODERATE" -> "STANDARD READINESS"
      [] risk_level = "LOW" -> "ROUTINE STATUS"
      [] OTHER -> "UNKNOWN"

\* _assess_public_readiness: the level is read from guidance["risk_context"]
AssessPublicReadiness(guidance) ==
    ReadinessLabel(Get(Get(guidance, "risk_context", EmptyDict), "risk_level", "LOW"))

\* _create_executive_dashboard: the risk indicators read from the risk
\* result and from the guidance
CreateExecutiveDashboard(risk_analysis, guidance, resource_report) ==
    [ risk_indicators |->
          [ overall_risk |-> Get(risk_analysis, "risk_score", 0),
            case_trends |-> ExtractTrendIndicator(risk_analysis, "cases"),
            public_readiness |-> AssessPublicReadiness(guidance) ],
      key_metrics |->
          [ data_freshness |-> "Real-time",
            coverage_area |-> Get(risk_analysis, "location", "Unknown") ] ]

\* _get_emergency_contacts
GetEmergencyContacts(location) ==
    [ local_health_department |-> <<location, " Health Department">>,
      emergency_management |-> <<location, " Emergency Management">>,
      cdc_eoc |-> <<"CDC Emergency Operations Center">>,
      phoenix_support |-> <<"Phoenix Outbreak Intelligence Support">> ]

\* The exception _compile_final_report raises, "" when it raises none.  The
\* first use of the resource report is `"resource_projections" in
\* resource_report` (_extract_key_findings), the first use of the guidance is
\* guidance.get (_extract_critical_actions, which runs after it).
CompileError(risk_analysis, guidance, resource_report) ==
    IF ~IsMapping(resource_report) THEN NotIterableMessage
    ELSE IF ~IsMapping(guidance) THEN NoGetMessage
    ELSE ""

\* _compile_final_report, when it raises nothing
CompileFinalReport(workflow_id, risk_analysis, guidance, resource_report) ==
    [ workflow_id |-> workflow_id,
      location |-> Get(risk_analysis.items, "location", NoneText),
      phoenix_intelligence_summary |->
          [ threat_level |->
                ThreatLevel(Get(risk_analysis.items, "risk_level", "UNKNOWN")),
            risk_score |-> Get(risk_analysis.items, "risk_score", 0),
            location |-> Get(risk_analysis.items, "location", NoneText),
            key_findings |->
                ExtractKeyFindings(risk_analysis.items, guidance.items,
                                   resource_report.items),
            confidence |-> Get(risk_analysis.items, "confidence", 50) ],
      executive_dashboard |->
          CreateExecutiveDashboard(risk_analysis.items, guidance.items,
                                   resource_report.items),
      components |->
          [ risk_assessment |-> risk_analysis,
            public_guidance |-> guidance,
            resource_allocation |-> resource_report ],
      validity_period |-> "7 days",
      contact_information |->
          GetEmergencyContacts(Get(risk_analysis.items, "location", "")) ]

\* ------------------------------------------------------------ the actions
\* The store and one execution's history, threaded through the statements
\* of a segment.
Machine(ws, log) == [ws |-> ws, log |-> log]

\* await self._update_stage(workflow_id, stage)
DoUpdateStage(m, workflow_id, stage) ==
    IF workflow_id \in DOMAIN m.ws
    THEN Machine(UpdateStage(m.ws, workflow_id, stage),
                 Append(m.log, StageEvent(stage)))
    ELSE Machine(UpdateStage(m.ws, workflow_id, stage),
                 Append(m.log, Event("stage_dropped", stage, PyNone)))

\* The arguments of a collaborator call: analyze_outbreak_risk(location),
\* validate_rumors(rumors_to_check, location), generate_public_guidance(
\* risk_analysis, location, target_audience), generate_resource_report(
\* risk_analysis, location).
CallArgs(l) ==
    [ risk_analysis |-> l.risk_analysis,
      rumors |-> l.rumors_to_check,
      location |-> l.location,
      target_audience |-> l.target_audience ]

\* The stage execute_full_analysis enters before a collaborator call.
StageBefore(target) ==
    IF target = "guidance" THEN GUIDANCE_GENERATION ELSE RESOURCE_PLANNING

\* A faulty variant of Suspend: the collaborator is called before the stage
\* is updated.
SuspendBeforeStage(e, m, l, target) ==
    \E m0 \in { Machine(m.ws, Append(m.log, CallEvent(target, CallArgs(l)))) } :
    \E m1 \in { IF target \in {"guidance", "resource"}
                THEN DoUpdateStage(m0, l.workflow_id, StageBefore(target))
                ELSE m0 } :
        /\ workflow_state' = m1.ws
        /\ trace' = [trace EXCEPT ![e] = m1.log]
        /\ pc' = [pc EXCEPT ![e] = target]
        /\ local' = [local EXCEPT ![e] = l]
        /\ UNCHANGED outcome

\* Execution e, with locals l, goes on to the collaborator call `target` and
\* is suspended in it.  (Values are bound with \E x \in {v}, which evaluates
\* v once.)
Suspend(e, m, l, target) ==
    \E m1 \in { IF target \in {"guidance", "resource"}
                THEN DoUpdateStage(m, l.workflow_id, StageBefore(target))
                ELSE m } :
        /\ workflow_state' = m1.ws
        /\ trace' = [trace EXCEPT ![e] = Append(m1.log, CallEvent(target, CallArgs(l)))]
        /\ pc' = [pc EXCEPT ![e] = target]
        /\ local' = [local EXCEPT ![e] = l]
        /\ UNCHANGED outcome

\* The except clause of execute_full_analysis: _handle_workflow_error, raise.
Fail(e, m, l, error) ==
    /\ workflow_state' = HandleWorkflowError(m.ws, l.workflow_id, error)
    /\ trace' = [trace EXCEPT ![e] =
                    IF l.workflow_id \in DOMAIN m.ws
                    THEN Append(m.log, Event("status", "FAILED", PyNone))
                    ELSE m.log]
    /\ pc' = [pc EXCEPT ![e] = "done"]
    /\ local' = [local EXCEPT ![e] = l]
    /\ outcome' = [outcome EXCEPT ![e] = Raised(error)]

\* Stage 6 of execute_full_analysis and its return.
Finalize(e, m, l, final_report) ==
    \E m1 \in { DoUpdateStage(m, l.workflow_id, FINALIZATION) } :
        /\ workflow_state' = FinalizeWorkflow(m1.ws, l.workflow_id)
        /\ trace' = [trace EXCEPT ![e] =
                        IF l.workflow_id \in DOMAIN m1.ws
                        THEN Append(m1.log, Event("status", "COMPLETED", PyNone))
                        ELSE m1.log]
        /\ pc' = [pc EXCEPT ![e] = "done"]
        /\ local' = [local EXCEPT ![e] = l]
        /\ outcome' = [outcome EXCEPT ![e] = Returned(final_report)]

\* Stages 5 and 6 of execute_full_analysis, to its return or its raise.
Finish(e, m, l, resource_report) ==
    \E m1 \in { DoUpdateStage(m, l.workflow_id, REPORT_COMPILATION) } :
    \E m2 \in { Machine(m1.ws, Append(m1.log, Event("compile", "", PyNone))) } :
    \E error \in { CompileError(l.risk_analysis, l.guidance_results,
                                resource_report) } :
        IF error # ""
        THEN Fail(e, m2, l, error)
        ELSE \E final_report \in
                    { CompileFinalReport(l.workflow_id, l.risk_analysis,
                                         l.guidance_results, resource_report) } :
                 Finalize(e, m2, l, final_report)

\* Where execute_full_analysis goes after a stage executor has returned.
Continue(e, m, l, next, resource_report) ==
    IF next = "compile"
    THEN Finish(e, m, l, resource_report)
    ELSE Suspend(e, m, l, next)

\* execute_full_analysis(location, target_audience), from the call to the
\* analyze_outbreak_risk call, or to the raise of _initialize_workflow.
\* Executions are numbered in the order they start.
Start(e, location, target_audience) ==
    /\ pc[e] = "idle"
    /\ \A d \in Executions : d < e => pc[d] # "idle"
    /\ solo => e = 1
    /\ \E workflow_id \in { WorkflowId(now) } :
       \E l \in { [NoLocal EXCEPT !.workflow_id = workflow_id,
                                  !.location = location,
                                  !.target_audience = target_audience] } :
       \E m1 \in { DoUpdateStage(
                       Machine(workflow_state, <<Event("start", location, PyNone)>>),
                       workflow_id, INITIALIZATION) } :
       \E ws2 \in { InitializeWorkflow(m1.ws, workflow_id, location, now, agents) } :
       \E m2 \in { Machine(ws2, Append(m1.log, Event("initialize", "",
                                                     PyDict(ws2[workflow_id])))) } :
           /\ creator' = SetItem(creator, workflow_id, e)
           /\ IF AgentsMissing(m2.ws[workflow_id])
              THEN Fail(e, m2, l, ConfigurationErrorMessage)
              ELSE \E m3 \in { DoUpdateStage(m2, workflow_id, DATA_COLLECTION) } :
                       Suspend(e, m3, l, "risk")
    /\ UNCHANGED << agents, now, solo, call >>
    /\ reply' = NoReply

\* analyze_outbreak_risk returns or raises.
RiskReturns(e) ==
    /\ pc[e] = "risk"
    /\ \E out \in RiskOutcomes(local[e].location, solo) :
       \E step \in { RiskStep(local[e].location, out) } :
       \E l \in { [local[e] EXCEPT !.risk_analysis = step.risk_analysis,
                                   !.rumors_to_check = step.rumors_to_check] } :
       \E m \in { Machine(workflow_state,
                          Append(trace[e], Event("end", "risk", out))) } :
           Continue(e, m, l, step.next, PyNone)
    /\ UNCHANGED << agents, now, creator, solo, call >>
    /\ reply' = NoReply

\* validate_rumors returns or raises.
RumorReturns(e) ==
    /\ pc[e] = "rumor"
    /\ \E out \in RumorOutcomes(local[e].rumors_to_check, local[e].location) :
       \E step \in { RumorStep(local[e].location, local[e].risk_analysis, out) } :
       \E l \in { [local[e] EXCEPT !.risk_analysis = step.risk_analysis] } :
       \E m \in { Machine(workflow_state,
                          Append(trace[e], Event("end", "rumor", out))) } :
           Continue(e, m, l, step.next, PyNone)
    /\ UNCHANGED << agents, now, creator, solo, call >>
    /\ reply' = NoReply

\* generate_public_guidance returns or raises.
GuidanceReturns(e) ==
    /\ pc[e] = "guidance"
    /\ \E out \in GuidanceOutcomes(local[e].risk_analysis.items, local[e].location,
                                   local[e].target_audience, solo) :
       \E step \in { GuidanceStep(local[e].risk_analysis, local[e].location,
                                  local[e].target_audience, out) } :
       \E l \in { [local[e] EXCEPT !.guidance_results = step.guidance] } :
       \E m \in { Machine(workflow_state,
                          Append(trace[e], Event("end", "guidance", out))) } :
           Continue(e, m, l, step.next, PyNone)
    /\ UNCHANGED << agents, now, creator, solo, call >>
    /\ reply' = NoReply

\* generate_resource_report returns or raises.
ResourceReturns(e) ==
    /\ pc[e] = "resource"
    /\ \E out \in ResourceOutcomes(local[e].risk_analysis.items, local[e].location,
                                   solo) :
       \E step \in { ResourceStep(local[e].risk_analysis, local[e].location, out) } :
       \E m \in { Machine(workflow_state,
                          Append(trace[e], Event("end", "resource", out))) } :
           Continue(e, m, local[e], step.next, step.resource_report)
    /\ UNCHANGED << agents, now, creator, solo, call >>
    /\ reply' = NoReply

\* A second of the wall clock passes.
Tick ==
    /\ now < MaxClock
    /\ now' = now + 1
    /\ UNCHANGED << agents, workflow_state, pc, local, outcome, trace,
                    creator, solo, call >>
    /\ reply' = NoReply

\* What a call of get_workflow_status gave its caller.
StatusReply(workflow_id, value) ==
    [op |-> "get_workflow_status", workflow_id |-> workflow_id, value |-> value]

\* The ids get_workflow_status is asked about: every id an execution can
\* have, in the store or not (yet).
StatusIds == 0..MaxClock

\* get_workflow_status(workflow_id), called between two segments of the
\* executions: a synchronous method, it runs without interruption.
GetStatus(workflow_id) ==
    /\ reply' = StatusReply(workflow_id,
                            GetWorkflowStatus(workflow_state, workflow_id))
    /\ UNCHANGED << workflowVars, call >>

Init ==
    /\ agents \in [data_agent : BOOLEAN, guidance_agent : BOOLEAN,
                   resource_agent : BOOLEAN]
    /\ workflow_state = EmptyDict
    /\ now = 0
    /\ pc = [e \in Executions |-> "idle"]
    /\ local = [e \in Executions |-> NoLocal]
    /\ outcome = [e \in Executions |-> NoOutcome]
    /\ trace = [e \in Executions |-> << >>]
    /\ creator = EmptyDict
    /\ solo \in BOOLEAN
    /\ call = NoCall
    /\ reply = NoReply

Next ==
    \/ \E e \in Executions, location \in Locations, target_audience \in Audiences :
          Start(e, location, target_audience)
    \/ \E e \in Executions : RiskReturns(e)
    \/ \E e \in Executions : RumorReturns(e)
    \/ \E e \in Executions : GuidanceReturns(e)
    \/ \E e \in Executions : ResourceReturns(e)
    \/ Tick
    \/ \E workflow_id \in StatusIds : GetStatus(workflow_id)

Spec == Init /\ [][Next]_vars

\* A collaborator call returns or raises.
CallEnds ==
    \E e \in Executions :
        RiskReturns(e) \/ RumorReturns(e) \/ GuidanceReturns(e) \/ ResourceReturns(e)

\* Pending collaborator calls eventually return or raise.  An execution makes
\* at most four calls, so while a call is pending one of them ends, and in
\* the end each of them has.
Fairness == WF_vars(CallEnds)

FairSpec == Spec /\ Fairness

\* ------------------------------------------------------ reading the state
Configured == agents.data_agent /\ agents.guidance_agent /\ agents.resource_agent

Started(e) == pc[e] # "idle"
Done(e) == pc[e] = "done"

\* Execution e takes a step / takes its last step.
Acts(e) == trace'[e] # trace[e]
Finishes(e) == pc[e] # "done" /\ pc'[e] = "done"

\* The places of an execution's history where it did `op` on `what`.
Places(e, op, what) ==
    { i \in 1..Len(trace[e]) : trace[e][i].op = op /\ trace[e][i].what = what }

Called(e, who) == Places(e, "call", who) # {}
Ended(e, who) == Places(e, "end", who) # {}
Compiled(e) == Places(e, "compile", "") # {}

\* How the call of `who` ended (it has ended).
OutcomeOf(e, who) == trace[e][CHOOSE i \in Places(e, "end", who) : TRUE].arg

RaisedIn(e, who) == Ended(e, who) /\ OutcomeOf(e, who).kind = "raise"
ReturnedMapping(e, who) ==
    /\ Ended(e, who)
    /\ OutcomeOf(e, who).kind = "return"
    /\ IsMapping(OutcomeOf(e, who).value)
ReturnedOther(e, who) ==
    /\ Ended(e, who)
    /\ OutcomeOf(e, who).kind = "return"
    /\ ~IsMapping(OutcomeOf(e, who).value)

Collaborators == {"risk", "rumor", "guidance", "resource"}

\* The context stored under the id of execution e.
ContextOf(e) == workflow_state[local[e].workflow_id]
HasContext(e) == local[e].workflow_id \in DOMAIN workflow_state

Components(e) == outcome[e].report.items.components

\* ----------------------------------------------------------------- claims
\* The message of the exception that made the risk stage fall back.
RiskFailure(e) ==
    IF RaisedIn(e, "risk") THEN OutcomeOf(e, "risk").msg ELSE OutcomeOf(e, "rumor").msg

\* Every call of execution e that has ended raised or returned a mapping.
RaisedOrMapping(e) == \A who \in Collaborators : ~ReturnedOther(e, who)

C1_Completed(e) ==
    /\ outcome[e].kind = "report"
    /\ HasContext(e)
    /\ "status" \in DOMAIN ContextOf(e)
    /\ ContextOf(e)["status"] = "COMPLETED"
    /\ Called(e, "guidance") /\ Called(e, "resource") /\ Compiled(e)
    /\ (RaisedIn(e, "risk") \/ RaisedIn(e, "rumor")) =>
           Components(e).risk_assessment =
               PyDict(RiskFallback(local[e].location, RiskFailure(e)))
    /\ RaisedIn(e, "guidance") =>
           Components(e).public_guidance =
               PyDict(GuidanceFallback(Components(e).risk_assessment.items,
                                       local[e].location, local[e].target_audience,
                                       OutcomeOf(e, "guidance").msg))
    /\ RaisedIn(e, "resource") =>
           Components(e).resource_allocation =
               PyDict(ResourceFallback(Components(e).risk_assessment,
                                       local[e].location,
                                       OutcomeOf(e, "resource").msg))

\* C1: with the three collaborators configured, whichever of the risk, rumor,
\* guidance and resource calls raise (the others returning mappings), the
\* execution returns a report: every failed stage's component is that stage's
\* fallback, the later stages still ran, and at the return the context under
\* the execution's id has status COMPLETED.
C1_RaisingCollaboratorsNeverAbort ==
    [][ \A e \in Executions :
            (Finishes(e) /\ Configured /\ RaisedOrMapping(e)') => C1_Completed(e)' ]_vars

\* C1 witness: an execution in which the rumor call, the guidance call and the
\* resource call all raised has returned a report.
C1_Witness ==
    \E e \in Executions :
        /\ Done(e) /\ Configured
        /\ RaisedIn(e, "rumor") /\ RaisedIn(e, "guidance") /\ RaisedIn(e, "resource")
        /\ outcome[e].kind = "report"

StatusWrites(e) == { i \in 1..Len(trace[e]) : trace[e][i].op = "status" }

C2_Final(e) ==
    /\ HasContext(e)
    /\ "status" \in DOMAIN ContextOf(e)
    /\ ContextOf(e)["status"] \in {"COMPLETED", "FAILED"}
    /\ ContextOf(e)["status"] = "COMPLETED" <=> outcome[e].kind = "report"
    /\ ContextOf(e)["status"] = "FAILED" <=> outcome[e].kind = "raised"
    /\ outcome[e].kind = "raised" =>
           /\ "error" \in DOMAIN ContextOf(e)
           /\ ContextOf(e)["error"] = outcome[e].error
    /\ Cardinality(StatusWrites(e)) = 1

\* C2: every started execution terminates (each pending collaborator call
\* eventually returning or raising); when it terminates the context under its
\* id has status COMPLETED exactly if it returns a report and FAILED, with the
\* error message, exactly if it raises; it sets the status once and does
\* nothing after that.
C2_RunsToCompletedOrFailed ==
    /\ \A e \in Executions : Started(e) ~> Done(e)
    /\ [][ \A e \in Executions : Finishes(e) => C2_Final(e)' ]_vars
    /\ [][ \A e \in Executions : Done(e) => ~Acts(e) ]_vars

\* C2 witness: one execution has returned a report and another, started at a
\* collaborator call of the first, has too; or an execution has raised after
\* its calls.
C2_Witness ==
    \/ \E e \in Executions :
          Done(e) /\ outcome[e].kind = "raised" /\ Called(e, "resource")
    \/ \A e \in Executions : Done(e) /\ outcome[e].kind = "report"

\* C3 (as claimed): once initialization has succeeded, whatever one
\* collaborator does, raising or returning a value that is no mapping, the
\* caller receives a report.
C3_NoFatalErrorFromACollaborator ==
    \A e \in Executions : (Configured /\ Done(e)) => outcome[e].kind = "report"

\* C4: with a collaborator unset, execute_full_analysis raises and returns no
\* report, calls no collaborator, leaves the context under its id FAILED with
\* the error message, and records no stage beyond INITIALIZATION.
C4_MissingCollaboratorIsFatal ==
    ~Configured =>
        \A e \in Executions :
            Started(e) =>
                /\ Done(e)
                /\ outcome[e] = Raised(ConfigurationErrorMessage)
                /\ \A i \in 1..Len(trace[e]) :
                       /\ trace[e][i].op # "call"
                       /\ trace[e][i].op = "stage" => trace[e][i].what = INITIALIZATION
                /\ HasContext(e)
                /\ "status" \in DOMAIN ContextOf(e)
                /\ ContextOf(e)["status"] = "FAILED"
                /\ "error" \in DOMAIN ContextOf(e)
                /\ ContextOf(e)["error"] = ConfigurationErrorMessage
                /\ "current_stage" \in DOMAIN ContextOf(e) =>
                       ContextOf(e)["current_stage"] = INITIALIZATION

\* C4 witness: the guidance collaborator alone is unset and an execution has
\* been called.
C4_Witness ==
    /\ agents.data_agent /\ ~agents.guidance_agent /\ agents.resource_agent
    /\ \E e \in Executions : Done(e) /\ outcome[e].kind = "raised"

IsStageEvent(event) == event.op = "stage"

\* The stages execution e records in a step, in order.
NewStages(e) ==
    LET new == SelectSeq(SubSeq(trace'[e], Len(trace[e]) + 1, Len(trace'[e])),
                         IsStageEvent)
    IN  [i \in 1..Len(new) |-> new[i].what]

\* The stage recorded last under an id, if the context under it has one.
StageBeforeStep(id) ==
    IF id \in DOMAIN workflow_state /\ "current_stage" \in DOMAIN workflow_state[id]
    THEN <<workflow_state[id]["current_stage"]>>
    ELSE << >>

\* C5 (as claimed): under each workflow id the recorded current_stage values
\* are strictly increasing in stage order: every stage an execution records
\* under its id is later than the stage recorded before it under that id.
C5_StagesStrictlyIncrease ==
    [][ \A e \in Executions :
            Acts(e) =>
                LET recorded == StageBeforeStep(local'[e].workflow_id) \o NewStages(e)
                IN  \A i \in 1..(Len(recorded) - 1) :
                        StageIndex(recorded[i]) < StageIndex(recorded[i + 1]) ]_vars

Rank(who) ==
    CASE who = "risk" -> 1 [] who = "rumor" -> 2 [] who = "guidance" -> 3
      [] who = "resource" -> 4

StageOfCall(who) ==
    IF who \in {"risk", "rumor"} THEN DATA_COLLECTION ELSE StageBefore(who)

\* C6: in one execution the collaborator calls are made one after another in
\* the order risk, rumor (if made), guidance, resource; a call begins only
\* after every earlier call has ended and after its stage was recorded as the
\* latest stage; a pending call is the last thing the execution did; the
\* report is compiled only after the resource call has ended.
C6_StagesRunSequentially ==
    \A e \in Executions :
        LET t == trace[e]
        IN  /\ \A i \in 1..Len(t) :
                   t[i].op = "call" =>
                       /\ \E j \in 1..(i - 1) :
                              /\ t[j].op = "stage"
                              /\ t[j].what = StageOfCall(t[i].what)
                              /\ \A k \in (j + 1)..(i - 1) : t[k].op # "stage"
                       /\ \A j \in 1..(i - 1) :
                              t[j].op = "call" =>
                                  /\ Rank(t[j].what) < Rank(t[i].what)
                                  /\ \E k \in (j + 1)..(i - 1) :
                                         t[k].op = "end" /\ t[k].what = t[j].what
                       /\ (\A k \in (i + 1)..Len(t) :
                               ~(t[k].op = "end" /\ t[k].what = t[i].what)) =>
                              i = Len(t) /\ pc[e] = t[i].what
            /\ \A i \in 1..Len(t) :
                   t[i].op = "end" =>
                       \E j \in 1..(i - 1) : t[j].op = "call" /\ t[j].what = t[i].what
            /\ \A i \in 1..Len(t) :
                   t[i].op = "compile" =>
                       \E j \in 1..(i - 1) : t[j].op = "end" /\ t[j].what = "resource"
            /\ pc[e] \in Collaborators =>
                   Len(t) > 0 /\ t[Len(t)].op = "call" /\ t[Len(t)].what = pc[e]

\* C6 witness: an execution made all four calls and compiled its report.
C6_Witness ==
    \E e \in Executions :
        Done(e) /\ Ended(e, "rumor") /\ Ended(e, "resource") /\ Compiled(e)

\* C7: in one execution each collaborator is called at most once, and a call
\* that raised is not followed by another call of the same collaborator.
C7_NoRetry ==
    \A e \in Executions :
        \A who \in Collaborators :
            /\ Cardinality(Places(e, "call", who)) <= 1
            /\ \A i \in Places(e, "end", who) :
                   \A k \in (i + 1)..Len(trace[e]) :
                       ~(trace[e][k].op = "call" /\ trace[e][k].what = who)

\* C7 witness: the risk call raised and the execution went on to a report
\* whose risk component is the fallback.
C7_Witness ==
    \E e \in Executions :
        /\ Done(e) /\ RaisedIn(e, "risk") /\ outcome[e].kind = "report"
        /\ "error" \in DOMAIN Components(e).risk_assessment.items

\* C8 (as claimed): a step of an execution leaves every context that another
\* execution created as it is.
C8_OnlyTheCreatorMutatesAContext ==
    [][ \A e \in Executions :
            Acts(e) =>
                \A id \in DOMAIN workflow_state :
                    creator[id] # e =>
                        /\ id \in DOMAIN workflow_state'
                        /\ workflow_state'[id] = workflow_state[id]
                        /\ creator'[id] = creator[id] ]_vars

\* The arguments execution e passed when it called `who` (it has called).
ArgumentsOf(e, who) == trace[e][CHOOSE i \in Places(e, "call", who) : TRUE].arg

\* The fallback risk component the claim fixes: risk_score 25.0 (in tenths),
\* confidence 0.5 (in hundredths), one fallback note.
C9_Fallback(e) ==
    PyDict([ location |-> local[e].location,
             risk_score |-> 250,
             risk_level |-> "MODERATE",
             confidence |-> 50,
             error |-> RiskFailure(e),
             insights |-> <<FallbackInsight>> ])

\* C9: if the risk call raised, or the rumor-validation call raised after the
\* risk call returned, then guidance is called with the fixed fallback as its
\* risk argument, resource is called with it once guidance has ended, the
\* execution does not end without compiling the report, the compilation
\* yields a report unless guidance or resource returned something that is
\* not a mapping, and the risk component of the report is the fallback.
C9_RiskFailureFallsBack ==
    \A e \in Executions :
        (RaisedIn(e, "risk") \/ RaisedIn(e, "rumor")) =>
            /\ Called(e, "guidance")
            /\ ArgumentsOf(e, "guidance").risk_analysis = C9_Fallback(e)
            /\ ArgumentsOf(e, "guidance").location = local[e].location
            /\ Ended(e, "guidance") =>
                   /\ Called(e, "resource")
                   /\ ArgumentsOf(e, "resource").risk_analysis = C9_Fallback(e)
            /\ Ended(e, "resource") => Compiled(e)
            /\ Done(e) => Compiled(e)
            /\ (Done(e) /\ ~ReturnedOther(e, "guidance") /\ ~ReturnedOther(e, "resource")) =>
                   outcome[e].kind = "report"
            /\ outcome[e].kind = "report" =>
                   Components(e).risk_assessment = C9_Fallback(e)

\* C9 witness: the risk call returned, the rumor validation raised, and the
\* execution returned a report.
C9_Witness ==
    \E e \in Executions :
        /\ ReturnedMapping(e, "risk") /\ RaisedIn(e, "rumor")
        /\ Done(e) /\ outcome[e].kind = "report"

\* A call of `who` that has ended returned a mapping without an error field.
ReturnedWithoutError(e, who) ==
    /\ ReturnedMapping(e, who)
    /\ "error" \notin DOMAIN OutcomeOf(e, who).value.items

\* C10: if every collaborator call of an execution returned a mapping that
\* has no error field, no component of the report it returns has one.
C10_NoErrorFieldWhenAllSucceed ==
    \A e \in Executions :
        ( /\ outcome[e].kind = "report"
          /\ \A who \in Collaborators : Ended(e, who) => ReturnedWithoutError(e, who) ) =>
            \A c \in {"risk_assessment", "public_guidance", "resource_allocation"} :
                "error" \notin DOMAIN Components(e)[c].items

\* C10 witness: all four calls returned without an error field and the
\* execution returned its report.
C10_Witness ==
    \E e \in Executions :
        /\ outcome[e].kind = "report"
        /\ \A who \in Collaborators : ReturnedWithoutError(e, who)

\* =========================================================== the router
\* src/agents/orchestrator/router.py, class PhoenixRouter.  Its coroutines
\* await nothing but one another, so a call of a router method runs from
\* its beginning to its end without interruption.
\*
\* Scores are kept in quarters (weight 2.5 is 10, the phrase factor 1.5
\* turns it into 15) and confidences in sixtieths (score / 15.0 is the score
\* in quarters over 60), so that every float the classifier computes is an
\* integer here.  The processing_timestamp of a decision is left out.

\* UserIntent, in the order of the enumeration
UserIntent ==
    << "outbreak_status",
       "risk_assessment",
       "public_guidance",
       "resource_planning",
       "school_guidance",
       "travel_guidance",
       "hospital_capacity",
       "rumor_validation",
       "general_information",
       "emergency_alert" >>

\* _load_intent_patterns: the catalog in its order.  Every keyword pattern
\* is r'\bword\b' and is kept as its word; no entry has exact_matches.
intent_patterns ==
 << [ intent |-> "outbreak_status",
      patterns |->
          [ keywords |->
                << <<"o","u","t","b","r","e","a","k">>,
                   <<"s","p","r","e","a","d">>,
                   <<"c","a","s","e","s">>,
                   <<"i","n","c","r","e","a","s","i","n","g">>,
                   <<"s","t","a","t","u","s">>,
                   <<"s","i","t","u","a","t","i","o","n">>,
                   <<"c","u","r","r","e","n","t">> >>,
            phrases |->
                << <<"o","u","t","b","r","e","a","k"," ","s","t","a","t","u","s">>,
                   <<"c","u","r","r","e","n","t"," ","s","i","t","u","a","t","i","o","n">>,
                   <<"c","a","s","e"," ","n","u","m","b","e","r","s">>,
                   <<"i","s"," ","t","h","e","r","e"," ","a","n"," ","o","u","t","b","r","e","a","k">>,
                   <<"o","u","t","b","r","e","a","k"," ","a","c","t","i","v","i","t","y">>,
                   <<"i","n","f","e","c","t","i","o","n"," ","r","a","t","e">> >>,
            weight |-> 8 ] ],
    [ intent |-> "risk_assessment",
      patterns |->
          [ keywords |->
                << <<"r","i","s","k">>,
                   <<"d","a","n","g","e","r">>,
                   <<"t","h","r","e","a","t">>,
                   <<"a","s","s","e","s","s">>,
                   <<"s","a","f","e","t","y">>,
                   <<"s","c","o","r","e">> >>,
            phrases |->
                << <<"r","i","s","k"," ","l","e","v","e","l">>,
                   <<"h","o","w"," ","d","a","n","g","e","r","o","u","s">>,
                   <<"t","h","r","e","a","t"," ","a","s","s","e","s","s","m","e","n","t">>,
                   <<"r","i","s","k"," ","s","c","o","r","e">>,
                   <<"s","a","f","e","t","y"," ","l","e","v","e","l">> >>,
            weight |-> 8 ] ],
    [ intent |-> "public_guidance",
      patterns |->
          [ keywords |->
                << <<"g","u","i","d","a","n","c","e">>,
                   <<"r","e","c","o","m","m","e","n","d">>,
                   <<"a","d","v","i","c","e">>,
                   <<"s","h","o","u","l","d">>,
                   <<"p","r","o","t","e","c","t","i","o","n">>,
                   <<"p","r","e","c","a","u","t","i","o","n">> >>,
            phrases |->
                << <<"p","u","b","l","i","c"," ","g","u","i","d","a","n","c","e">>,
                   <<"r","e","c","o","m","m","e","n","d","a","t","i","o","n","s">>,
                   <<"w","h","a","t"," ","s","h","o","u","l","d">>,
                   <<"h","e","a","l","t","h"," ","a","d","v","i","c","e">>,
                   <<"s","a","f","e","t","y"," ","m","e","a","s","u","r","e","s">>,
                   <<"p","r","e","c","a","u","t","i","o","n","s">> >>,
            weight |-> 8 ] ],
    [ intent |-> "school_guidance",
      patterns |->
          [ keywords |->
                << <<"s","c","h","o","o","l">>,
                   <<"s","t","u","d","e","n","t">>,
                   <<"e","d","u","c","a","t","i","o","n">>,
                   <<"c","l","a","s","s">>,
                   <<"t","e","a","c","h","e","r">>,
                   <<"c","a","m","p","u","s">> >>,
            phrases |->
                << <<"s","c","h","o","o","l"," ","s","a","f","e","t","y">>,
                   <<"s","t","u","d","e","n","t"," ","g","u","i","d","a","n","c","e">>,
                   <<"c","l","a","s","s","r","o","o","m"," ","p","r","e","c","a","u","t","i","o","n","s">>,
                   <<"s","c","h","o","o","l"," ","c","l","o","s","u","r","e">>,
                   <<"e","d","u","c","a","t","i","o","n","a","l"," ","s","e","t","t","i","n","g","s">> >>,
            weight |-> 10 ] ],
    [ intent |-> "travel_guidance",
      patterns |->
          [ keywords |->
                << <<"t","r","a","v","e","l">>,
                   <<"t","r","i","p">>,
                   <<"f","l","i","g","h","t">>,
                   <<"t","r","a","n","s","p","o","r","t">>,
                   <<"a","i","r","p","o","r","t">>,
                   <<"v","i","s","i","t">> >>,
            phrases |->
                << <<"t","r","a","v","e","l"," ","a","d","v","i","c","e">>,
                   <<"t","r","a","v","e","l"," ","r","e","s","t","r","i","c","t","i","o","n","s">>,
                   <<"s","a","f","e"," ","t","o"," ","t","r","a","v","e","l">>,
                   <<"t","r","a","v","e","l"," ","g","u","i","d","a","n","c","e">>,
                   <<"t","r","i","p"," ","s","a","f","e","t","y">> >>,
            weight |-> 10 ] ],
    [ intent |-> "resource_planning",
      patterns |->
          [ keywords |->
                << <<"r","e","s","o","u","r","c","e">>,
                   <<"s","u","p","p","l","y">>,
                   <<"c","a","p","a","c","i","t","y">>,
                   <<"b","e","d">>,
                   <<"p","p","e">>,
                   <<"e","q","u","i","p","m","e","n","t">>,
                   <<"s","h","o","r","t","a","g","e">> >>,
            phrases |->
                << <<"r","e","s","o","u","r","c","e"," ","a","l","l","o","c","a","t","i","o","n">>,
                   <<"h","o","s","p","i","t","a","l"," ","c","a","p","a","c","i","t","y">>,
                   <<"b","e","d"," ","a","v","a","i","l","a","b","i","l","i","t","y">>,
                   <<"p","p","e"," ","s","h","o","r","t","a","g","e">>,
                   <<"m","e","d","i","c","a","l"," ","s","u","p","p","l","i","e","s">>,
                   <<"r","e","s","o","u","r","c","e"," ","p","l","a","n","n","i","n","g">> >>,
            weight |-> 8 ] ],
    [ intent |-> "hospital_capacity",
      patterns |->
          [ keywords |->
                << <<"h","o","s","p","i","t","a","l">>,
                   <<"i","c","u">>,
                   <<"b","e","d">>,
                   <<"c","a","p","a","c","i","t","y">>,
                   <<"a","v","a","i","l","a","b","l","e">>,
                   <<"f","u","l","l">> >>,
            phrases |->
                << <<"h","o","s","p","i","t","a","l"," ","c","a","p","a","c","i","t","y">>,
                   <<"i","c","u"," ","a","v","a","i","l","a","b","i","l","i","t","y">>,
                   <<"b","e","d"," ","s","h","o","r","t","a","g","e">>,
                   <<"h","o","s","p","i","t","a","l"," ","f","u","l","l">>,
                   <<"m","e","d","i","c","a","l"," ","c","a","p","a","c","i","t","y">> >>,
            weight |-> 10 ] ],
    [ intent |-> "rumor_validation",
      patterns |->
          [ keywords |->
                << <<"r","u","m","o","r">>,
                   <<"h","e","a","r","d">>,
                   <<"t","r","u","e">>,
                   <<"f","a","l","s","e">>,
                   <<"v","e","r","i","f","y">>,
                   <<"c","h","e","c","k">>,
                   <<"c","l","a","i","m">> >>,
            phrases |->
                << <<"i","s"," ","i","t"," ","t","r","u","e">>,
                   <<"v","e","r","i","f","y"," ","c","l","a","i","m">>,
                   <<"f","a","c","t"," ","c","h","e","c","k">>,
                   <<"r","u","m","o","r"," ","v","a","l","i","d","a","t","i","o","n">>,
                   <<"h","e","a","r","d"," ","t","h","a","t">>,
                   <<"c","h","e","c","k"," ","i","f">> >>,
            weight |-> 8 ] ],
    [ intent |-> "emergency_alert",
      patterns |->
          [ keywords |->
                << <<"e","m","e","r","g","e","n","c","y">>,
                   <<"c","r","i","s","i","s">>,
                   <<"u","r","g","e","n","t">>,
                   <<"c","r","i","t","i","c","a","l">>,
                   <<"a","l","e","r","t">>,
                   <<"i","m","m","e","d","i","a","t","e">> >>,
            phrases |->
                << <<"e","m","e","r","g","e","n","c","y"," ","a","l","e","r","t">>,
                   <<"c","r","i","s","i","s"," ","s","i","t","u","a","t","i","o","n">>,
                   <<"u","r","g","e","n","t"," ","r","e","s","p","o","n","s","e">>,
                   <<"c","r","i","t","i","c","a","l"," ","o","u","t","b","r","e","a","k">>,
                   <<"i","m","m","e","d","i","a","t","e"," ","a","c","t","i","o","n">> >>,
            weight |-> 12 ] ],
    [ intent |-> "general_information",
      patterns |->
          [ keywords |->
                << <<"w","h","a","t">>,
                   <<"h","o","w">>,
                   <<"w","h","e","n">>,
                   <<"w","h","e","r","e">>,
                   <<"i","n","f","o">>,
                   <<"h","e","l","p">> >>,
            phrases |->
                << <<"g","e","n","e","r","a","l"," ","i","n","f","o","r","m","a","t","i","o","n">>,
                   <<"t","e","l","l"," ","m","e"," ","a","b","o","u","t">>,
                   <<"h","e","l","p"," ","w","i","t","h">>,
                   <<"i","n","f","o","r","m","a","t","i","o","n"," ","a","b","o","u","t">> >>,
            weight |-> 4 ] ] >>

\* ---------------------------------------------------------- _classify_intent
\* 15.0, the score that gives confidence 1.0, in quarters
max_possible_score == 60
\* 10.0, the score of an exact match, in quarters
ExactMatchBonus == 40
\* 0.3, the confidence when nothing matches, in sixtieths
NoMatchConfidence == 18
\* patterns.get("weight", 1.0), in quarters
DefaultWeight == 4

NoLowerMessage == "'NoneType' object has no attribute 'lower'"

\* The score of one intent's patterns on the lower-cased input.
Score(patterns, user_input_lower) ==
    LET keywords == Get(patterns, "keywords", << >>)
        phrases == Get(patterns, "phrases", << >>)
        exact_matches == Get(patterns, "exact_matches", << >>)
        weight == Get(patterns, "weight", DefaultWeight)
        hits == Cardinality({ i \in 1..Len(keywords) :
                                  SearchWord(keywords[i], user_input_lower) })
        held == Cardinality({ i \in 1..Len(phrases) :
                                  Contains(user_input_lower, phrases[i]) })
        equal == Cardinality({ i \in 1..Len(exact_matches) :
                                   exact_matches[i] = Strip(user_input_lower) })
    IN  weight * hits + ((3 * weight) \div 2) * held + ExactMatchBonus * equal

IsScored(item) == item.score > 0

\* intent_scores: the intents that score above 0, in the catalog's order.
IntentScores(catalog, user_input_lower) ==
    SelectSeq([i \in 1..Len(catalog) |->
                   [ intent |-> catalog[i].intent,
                     score |-> Score(catalog[i].patterns, user_input_lower) ]],
              IsScored)

\* A faulty variant of MaxItem: of several items with the highest score the
\* last one is taken.
MaxItemLast(items) ==
    items[CHOOSE i \in 1..Len(items) :
              /\ \A j \in 1..Len(items) : items[j].score <= items[i].score
              /\ \A j \in (i + 1)..Len(items) : items[j].score < items[i].score]

\* max(intent_scores.items(), key=lambda x: x[1]): the first item, in the
\* order of the dict, whose score no other item exceeds.
MaxItem(items) ==
    items[CHOOSE i \in 1..Len(items) :
              /\ \A j \in 1..Len(items) : items[j].score <= items[i].score
              /\ \A j \in 1..(i - 1) : items[j].score < items[i].score]

\* A faulty variant of Confidence: the quotient is not capped.
ConfidenceUncapped(score) == score

\* min(score / max_possible_score, 1.0), in sixtieths
Confidence(score) == IF score < max_possible_score THEN score ELSE max_possible_score

\* A faulty variant of NoMatch: the confidence of the fallback decision.
NoMatchAsFallback == [intent |-> "general_information", confidence |-> 6]

\* return UserIntent.GENERAL_INFORMATION, 0.3
NoMatch == [intent |-> "general_information", confidence |-> NoMatchConfidence]

\* _classify_intent with the catalog of the router.  A user_input that is
\* not a str has no lower(); UserIntent(name) raises for a name that is not
\* a value of the enumeration.
ClassifyIntent(user_input) ==
    IF ~IsText(user_input) THEN Raise(NoLowerMessage)
    ELSE LET intent_scores == IntentScores(intent_patterns, Lower(user_input.chars))
         IN  IF intent_scores = << >> THEN Return(NoMatch)
             ELSE LET best_intent == MaxItem(intent_scores)
                  IN  IF \A i \in 1..Len(UserIntent) : UserIntent[i] # best_intent.intent
                      THEN Raise("not a valid UserIntent")
                      ELSE Return([ intent |-> best_intent.intent,
                                    confidence |-> Confidence(best_intent.score) ])

\* --------------------------------------------------------- _extract_entities
\* Every pattern is searched with re.IGNORECASE, so the words of the
\* patterns are kept in lower case and matched against the lower-cased
\* text; what re.findall returns is the text as the input has it.

\* The number of letters from place i on, up to the first character that is
\* not a letter.
LetterRun(text, i) ==
    IF i > Len(text) THEN 0
    ELSE CHOOSE n \in 0..(Len(text) - i + 1) :
             /\ \A k \in 0..(n - 1) : IsLetter(text[i + k])
             /\ i + n > Len(text) \/ ~IsLetter(text[i + n])

\* text[i], or a space past the end of the text
At(text, i) == IF i \in 1..Len(text) THEN text[i] ELSE " "

\* r'\b(a|b|...)\b' at place i: the length of the first alternative that
\* matches there, 0 when none does.
AlternativeAt(alternatives, text, low, i) ==
    LET hits == { k \in 1..Len(alternatives) :
                      /\ MatchesAt(alternatives[k], low, i)
                      /\ WordStart(text, i)
                      /\ WordEnd(text, i + Len(alternatives[k]) - 1) }
    IN  IF hits = {} THEN 0
        ELSE Len(alternatives[CHOOSE k \in hits : \A h \in hits : k <= h])

County == <<"c","o","u","n","t","y">>
Parish == <<"p","a","r","i","s","h">>

\* r'\b([A-Z][a-z]+ (?:County|Parish))\b' at place i: the length of the
\* match, 0 when there is none.  The first word is a whole run of letters.
CountyAt(text, low, i) ==
    LET n == LetterRun(text, i)
    IN  IF /\ WordStart(text, i) /\ n >= 2
           /\ At(text, i + n) = " "
           /\ MatchesAt(County, low, i + n + 1) \/ MatchesAt(Parish, low, i + n + 1)
           /\ WordEnd(text, i + n + Len(County))
        THEN n + 1 + Len(County) ELSE 0

\* ', XX' followed by \b, after place e
StateCodeAfter(text, e) ==
    /\ e + 4 <= Len(text)
    /\ text[e + 1] = "," /\ text[e + 2] = " "
    /\ IsLetter(text[e + 3]) /\ IsLetter(text[e + 4])
    /\ WordEnd(text, e + 4)

\* r'\b([A-Z][a-z]+, [A-Z]{2})\b' at place i
CityStateAt(text, low, i) ==
    LET n == LetterRun(text, i)
    IN  IF WordStart(text, i) /\ n >= 2 /\ StateCodeAfter(text, i + n - 1)
        THEN n + 4 ELSE 0

\* r'\b([A-Z][a-z]+ [A-Z][a-z]+(?:, [A-Z]{2})?)\b' at place i: two words of
\* two letters or more, with the state code when one follows.
CityAt(text, low, i) ==
    LET n == LetterRun(text, i)
        m == LetterRun(text, i + n + 1)
        e == i + n + m
    IN  IF WordStart(text, i) /\ n >= 2 /\ At(text, i + n) = " " /\ m >= 2
        THEN IF StateCodeAfter(text, e) THEN n + 1 + m + 4
             ELSE IF WordEnd(text, e) THEN n + 1 + m ELSE 0
        ELSE 0

RECURSIVE Scan(_, _, _)
\* re.findall from place i on: the matches from left to right, none
\* overlapping another; lengths[k] is the length of the match that begins
\* at place k, 0 when none does.
Scan(lengths, text, i) ==
    IF i > Len(text) THEN << >>
    ELSE IF lengths[i] > 0
         THEN <<SubSeq(text, i, i + lengths[i] - 1)>>
                  \o Scan(lengths, text, i + lengths[i])
         ELSE Scan(lengths, text, i + 1)

\* re.findall(r'\b(a|b|...)\b', text, re.IGNORECASE); low is the text in
\* lower case
FindAllIn(alternatives, text, low) ==
    Scan([i \in 1..Len(text) |-> AlternativeAt(alternatives, text, low, i)],
         text, 1)

RECURSIVE FindEachIn(_, _, _)
\* for pattern in patterns: found.extend(re.findall(pattern, text, ...))
FindEachIn(patterns, text, low) ==
    IF patterns = << >> THEN << >>
    ELSE FindAllIn(Head(patterns), text, low) \o FindEachIn(Tail(patterns), text, low)

\* location_patterns[2]: the states
location_states ==
    << <<"c","a","l","i","f","o","r","n","i","a">>,
       <<"t","e","x","a","s">>,
       <<"n","e","w"," ","y","o","r","k">>,
       <<"f","l","o","r","i","d","a">>,
       <<"i","l","l","i","n","o","i","s">>,
       <<"p","e","n","n","s","y","l","v","a","n","i","a">>,
       <<"o","h","i","o">>,
       <<"g","e","o","r","g","i","a">>,
       <<"n","o","r","t","h"," ","c","a","r","o","l","i","n","a">>,
       <<"m","i","c","h","i","g","a","n">> >>

\* The matches of the four location_patterns, in the order of the patterns.
FindLocations(text, low) ==
    Scan([i \in 1..Len(text) |-> CountyAt(text, low, i)], text, 1)
    \o Scan([i \in 1..Len(text) |-> CityStateAt(text, low, i)], text, 1)
    \o FindAllIn(location_states, text, low)
    \o Scan([i \in 1..Len(text) |-> CityAt(text, low, i)], text, 1)

\* date_patterns; the two patterns of digits are left out, they match in no
\* text without a digit, and the texts of this model hold none
date_patterns ==
    << << <<"t","o","d","a","y">>,
             <<"y","e","s","t","e","r","d","a","y">>,
             <<"t","o","m","o","r","r","o","w">> >>,
       << <<"t","h","i","s"," ","w","e","e","k">>,
             <<"n","e","x","t"," ","w","e","e","k">>,
             <<"l","a","s","t"," ","w","e","e","k">> >>,
       << <<"t","h","i","s"," ","m","o","n","t","h">>,
             <<"n","e","x","t"," ","m","o","n","t","h">>,
             <<"l","a","s","t"," ","m","o","n","t","h">> >> >>

\* health_patterns
health_patterns ==
    << << <<"c","o","v","i","d">>,
             <<"c","o","r","o","n","a","v","i","r","u","s">>,
             <<"i","n","f","l","u","e","n","z","a">>,
             <<"f","l","u">>,
             <<"p","n","e","u","m","o","n","i","a">> >>,
       << <<"o","u","t","b","r","e","a","k">>,
             <<"e","p","i","d","e","m","i","c">>,
             <<"p","a","n","d","e","m","i","c">> >>,
       << <<"s","y","m","p","t","o","m","s">>,
             <<"f","e","v","e","r">>,
             <<"c","o","u","g","h">>,
             <<"s","h","o","r","t","n","e","s","s"," ","o","f"," ","b","r","e","a","t","h">> >> >>

\* facility_patterns
facility_patterns ==
    << << <<"h","o","s","p","i","t","a","l">>,
             <<"c","l","i","n","i","c">>,
             <<"s","c","h","o","o","l">>,
             <<"w","o","r","k","p","l","a","c","e">>,
             <<"r","e","s","t","a","u","r","a","n","t">>,
             <<"g","y","m">> >>,
       << <<"n","u","r","s","i","n","g"," ","h","o","m","e">>,
             <<"l","o","n","g","-","t","e","r","m"," ","c","a","r","e">>,
             <<"a","s","s","i","s","t","e","d"," ","l","i","v","i","n","g">> >>,
       << <<"a","i","r","p","o","r","t">>,
             <<"p","u","b","l","i","c"," ","t","r","a","n","s","p","o","r","t">>,
             <<"b","u","s">>,
             <<"t","r","a","i","n">> >> >>

\* urgency_patterns
urgency_patterns ==
    << << <<"u","r","g","e","n","t">>,
             <<"e","m","e","r","g","e","n","c","y">>,
             <<"i","m","m","e","d","i","a","t","e">>,
             <<"a","s","a","p">>,
             <<"c","r","i","t","i","c","a","l">> >>,
       << <<"n","o","w">>,
             <<"q","u","i","c","k","l","y">>,
             <<"f","a","s","t">>,
             <<"r","a","p","i","d">> >> >>

\* list(set(found)): the entries without repetition.  The order in which
\* the list holds them is the set's, which the program does not fix; the
\* model keeps the set.
ToSet(found) == { found[i] : i \in 1..Len(found) }

\* if location_context: None and '' are not
Truthy(v) == IsText(v) /\ v.chars # << >>

NotTextMessage == "expected string or bytes-like object, got 'NoneType'"

\* The entities of a text; low is the text in lower case.
EntitiesOf(text, low, location_context) ==
    [ locations |->
          ToSet(FindLocations(text, low)
                    \o ( IF Truthy(location_context)
                         THEN <<location_context.chars>> ELSE << >> )),
      dates |-> ToSet(FindEachIn(date_patterns, text, low)),
      health_conditions |-> ToSet(FindEachIn(health_patterns, text, low)),
      facility_types |-> ToSet(FindEachIn(facility_patterns, text, low)),
      urgency_indicators |-> ToSet(FindEachIn(urgency_patterns, text, low)) ]

\* _extract_entities
ExtractEntities(user_input, location_context) ==
    IF ~IsText(user_input) THEN Raise(NotTextMessage)
    ELSE \* the text is lower-cased once
         LET low == Lower(user_input.chars)
         IN  Return(EntitiesOf(user_input.chars, low, location_context))

\* ----------------------------------------------- _determine_routing_strategy
\* 0.9, in sixtieths
HighConfidence == 54

Hospital == <<"h","o","s","p","i","t","a","l">>
Clinic == <<"c","l","i","n","i","c">>

\* dict.update: the entries of `changes` replace or extend those of d
Update(d, changes) ==
    [k \in (DOMAIN d) \cup (DOMAIN changes) |->
         IF k \in DOMAIN changes THEN changes[k] ELSE d[k]]

\* A faulty variant of IsUrgent: a confidence of 0.9 counts as high.
IsUrgentFromNine(entities, confidence) ==
    Get(entities, "urgency_indicators", {}) # {} \/ confidence >= HighConfidence

\* if entities.get("urgency_indicators") or confidence > 0.9
IsUrgent(entities, confidence) ==
    Get(entities, "urgency_indicators", {}) # {} \/ confidence > HighConfidence

\* What strategy.update(...) is given for an intent.
IntentStrategy(intent) ==
    CASE intent = "outbreak_status" ->
             [ primary_agent |-> "data_intelligence",
               workflow_type |-> "full_analysis",
               additional_agents |-> <<"public_guidance">>,
               parallel_processing |-> FALSE ]
      [] intent = "risk_assessment" ->
             [ primary_agent |-> "data_intelligence",
               workflow_type |-> "risk_focused",
               additional_agents |-> << >>,
               parallel_processing |-> FALSE ]
      [] intent = "public_guidance" ->
             [ primary_agent |-> "public_guidance",
               workflow_type |-> "guidance_focused",
               additional_agents |-> <<"data_intelligence">>,
               parallel_processing |-> FALSE ]
      [] intent \in {"school_guidance", "travel_guidance"} ->
             [ primary_agent |-> "public_guidance",
               workflow_type |-> "audience_specific",
               additional_agents |-> <<"data_intelligence">>,
               parallel_processing |-> FALSE ]
      [] intent \in {"resource_planning", "hospital_capacity"} ->
             [ primary_agent |-> "resource_planning",
               workflow_type |-> "resource_focused",
               additional_agents |-> <<"data_intelligence">>,
               parallel_processing |-> FALSE ]
      [] intent = "rumor_validation" ->
             [ primary_agent |-> "data_intelligence",
               workflow_type |-> "validation_focused",
               additional_agents |-> << >>,
               parallel_processing |-> FALSE ]
      [] intent = "emergency_alert" ->
             [ primary_agent |-> "orchestrator",
               workflow_type |-> "emergency_response",
               additional_agents |->
                   <<"data_intelligence", "public_guidance", "resource_planning">>,
               parallel_processing |-> TRUE,
               priority_level |-> "critical" ]
      [] OTHER ->
             [ primary_agent |-> "orchestrator",
               workflow_type |-> "general_inquiry",
               additional_agents |-> <<"data_intelligence">>,
               parallel_processing |-> FALSE ]

\* A faulty variant of AdjustAgents: resource_planning is appended without
\* looking whether the list holds it.
AdjustAgentsAlways(additional_agents, entities) ==
    LET facility_types == Get(entities, "facility_types", {})
    IN  IF facility_types # {}
           /\ (Hospital \in facility_types \/ Clinic \in facility_types)
        THEN Append(additional_agents, "resource_planning")
        ELSE additional_agents

\* The adjustment of additional_agents to the facility types.
AdjustAgents(additional_agents, entities) ==
    LET facility_types == Get(entities, "facility_types", {})
    IN  IF /\ facility_types # {}
           /\ Hospital \in facility_types \/ Clinic \in facility_types
           /\ \A i \in 1..Len(additional_agents) :
                  additional_agents[i] # "resource_planning"
        THEN Append(additional_agents, "resource_planning")
        ELSE additional_agents

\* A faulty variant of AdjustWorkflowType: one location is enough.
AdjustWorkflowTypeFromOne(workflow_type, entities) ==
    IF Cardinality(Get(entities, "locations", {})) >= 1
    THEN "comparative_analysis" ELSE workflow_type

\* if len(entities.get("locations", [])) > 1
AdjustWorkflowType(workflow_type, entities) ==
    IF Cardinality(Get(entities, "locations", {})) > 1
    THEN "comparative_analysis" ELSE workflow_type

\* _determine_routing_strategy
DetermineRoutingStrategy(intent, entities, confidence) ==
    LET strategy ==
            [ primary_agent |-> PyNone,
              workflow_type |-> "single_agent",
              additional_agents |-> << >>,
              parallel_processing |-> FALSE,
              priority_level |->
                  IF IsUrgent(entities, confidence) THEN "high" ELSE "normal" ]
        routed == Update(strategy, IntentStrategy(intent))
    IN  [ routed EXCEPT
              !["additional_agents"] = AdjustAgents(@, entities),
              !["workflow_type"] = AdjustWorkflowType(@, entities) ]

\* ------------------------------------------------------------ route_request
\* 0.1, the confidence of the fallback decision, in sixtieths
FallbackRoutingConfidence == 6

\* A faulty variant of CreateFallbackRouting: the location is dropped.
CreateFallbackRoutingBare(user_input, location) ==
    [ intent |-> "general_information",
      confidence |-> FallbackRoutingConfidence,
      entities |-> [locations |-> << >>],
      routing_strategy |->
          [ primary_agent |-> "orchestrator",
            workflow_type |-> "general_inquiry",
            additional_agents |-> <<"data_intelligence">>,
            parallel_processing |-> FALSE,
            priority_level |-> "normal" ],
      user_input |-> user_input,
      fallback |-> TRUE ]

\* _create_fallback_routing
CreateFallbackRouting(user_input, location) ==
    [ intent |-> "general_information",
      confidence |-> FallbackRoutingConfidence,
      entities |->
          [locations |-> IF Truthy(location) THEN <<location.chars>> ELSE << >>],
      routing_strategy |->
          [ primary_agent |-> "orchestrator",
            workflow_type |-> "general_inquiry",
            additional_agents |-> <<"data_intelligence">>,
            parallel_processing |-> FALSE,
            priority_level |-> "normal" ],
      user_input |-> user_input,
      fallback |-> TRUE ]

\* The try block of route_request: what it returns, or the exception that
\* leaves it.  intent.value is the name the model keeps the intent as.
RouteRequestBody(user_input, location) ==
    LET classified == ClassifyIntent(user_input)
        extracted == ExtractEntities(user_input, location)
    IN  IF classified.kind = "raise" THEN classified
        ELSE IF extracted.kind = "raise" THEN extracted
        ELSE Return([ intent |-> classified.value.intent,
                      confidence |-> classified.value.confidence,
                      entities |-> extracted.value,
                      routing_strategy |->
                          DetermineRoutingStrategy(classified.value.intent,
                                                   extracted.value,
                                                   classified.value.confidence),
                      user_input |-> user_input ])

\* A faulty variant of RouteRequest: the exception is not caught.
RouteRequestUncaught(user_input, location) ==
    RouteRequestBody(user_input, location)

\* route_request: except Exception, return the fallback decision
RouteRequest(user_input, location) ==
    LET tried == RouteRequestBody(user_input, location)
    IN  IF tried.kind = "raise"
        THEN Return(CreateFallbackRouting(user_input, location))
        ELSE tried

\* ------------------------------------------------- the calls of the router
\* The texts a call is made with are built of at most MaxFragments of the
\* Fragments, joined by single spaces.
MaxFragments == 2

Fragments ==
    { <<"h","e","l","l","o">>,
      <<"b","e","d","r","o","o","m">>,
      <<"r","i","s","k">>,
      <<"g","u","i","d","a","n","c","e">>,
      <<"S","c","h","o","o","l">>,
      <<"h","o","s","p","i","t","a","l">>,
      <<"H","o","s","p","i","t","a","l">>,
      <<"e","m","e","r","g","e","n","c","y">>,
      <<"n","o","w">>,
      <<"T","e","x","a","s">>,
      <<"w","h","a","t"," ","h","o","w"," ","w","h","e","n">>,
      <<"h","o","s","p","i","t","a","l"," ","i","c","u"," ","b","e","d"," ","c","a","p","a","c","i","t","y"," ","a","v","a","i","l","a","b","l","e"," ","f","u","l","l">>,
      <<"b","e","d"," ","s","h","o","r","t","a","g","e">>,
      <<"u","n","s","a","f","e"," ","t","o"," ","t","r","a","v","e","l">> }

RECURSIVE Join(_)
Join(parts) ==
    IF parts = << >> THEN << >>
    ELSE IF Len(parts) = 1 THEN parts[1]
    ELSE parts[1] \o <<" ">> \o Join(Tail(parts))

Texts == { Join(parts) : parts \in UNION { [1..n -> Fragments] : n \in 0..MaxFragments } }

Texas == <<"T","e","x","a","s">>
Ohio == <<"O","h","i","o">>

\* user_input: a text, or None
UserInputs == { PyStr(text) : text \in Texts } \cup { PyNone }
\* location: None (the default), '' or a location
LocationContexts == { PyNone, PyStr(<< >>), PyStr(Texas) }

\* The entities _determine_routing_strategy is called with directly.
EntityBags ==
    [ locations : { {}, {Texas}, {Texas, Ohio} },
      dates : { {} },
      health_conditions : { {} },
      facility_types :
          { {}, {Hospital}, {Clinic}, {<<"s","c","h","o","o","l">>}, {<<"H","o","s","p","i","t","a","l">>},
            {Hospital, Clinic} },
      urgency_indicators : { {}, {<<"n","o","w">>} } ]

Confidences == { NoMatchConfidence, HighConfidence, HighConfidence + 1, max_possible_score }

RouterCalls ==
    { [op |-> "route_request", user_input |-> u, location |-> l] :
          u \in UserInputs, l \in LocationContexts }
    \cup { [op |-> "_classify_intent", user_input |-> u] : u \in UserInputs }
    \cup { [op |-> "_extract_entities", user_input |-> u, location_context |-> l] :
               u \in UserInputs, l \in LocationContexts }
    \cup { [op |-> "_determine_routing_strategy", intent |-> UserIntent[i],
            entities |-> e, confidence |-> c] :
               i \in 1..Len(UserIntent), e \in EntityBags, c \in Confidences }

\* What a call of a router method gave its caller.
RouterReply(op, value) == [op |-> op, value |-> value]

\* One call of route_request, from its beginning to its return.
CallRouteRequest ==
    /\ call.op = "route_request" /\ reply = NoReply
    /\ \E decision \in { RouteRequest(call.user_input, call.location) } :
           reply' = RouterReply(call.op, decision)
    /\ UNCHANGED << workflowVars, call >>

CallClassifyIntent ==
    /\ call.op = "_classify_intent" /\ reply = NoReply
    /\ \E result \in { ClassifyIntent(call.user_input) } :
           reply' = RouterReply(call.op, result)
    /\ UNCHANGED << workflowVars, call >>

CallExtractEntities ==
    /\ call.op = "_extract_entities" /\ reply = NoReply
    /\ \E result \in { ExtractEntities(call.user_input, call.location_context) } :
           reply' = RouterReply(call.op, result)
    /\ UNCHANGED << workflowVars, call >>

CallDetermineRoutingStrategy ==
    /\ call.op = "_determine_routing_strategy" /\ reply = NoReply
    /\ \E strategy \in { DetermineRoutingStrategy(call.intent, call.entities,
                                                    call.confidence) } :
           reply' = RouterReply(call.op, strategy)
    /\ UNCHANGED << workflowVars, call >>

\* A router (PhoenixRouter()) and one call of one of its methods; no
\* workflow runs.
RouterInit ==
    /\ call \in RouterCalls
    /\ reply = NoReply
    /\ agents = [data_agent |-> TRUE, guidance_agent |-> TRUE, resource_agent |-> TRUE]
    /\ workflow_state = EmptyDict
    /\ now = 0
    /\ pc = [e \in Executions |-> "idle"]
    /\ local = [e \in Executions |-> NoLocal]
    /\ outcome = [e \in Executions |-> NoOutcome]
    /\ trace = [e \in Executions |-> << >>]
    /\ creator = EmptyDict
    /\ solo = TRUE

RouterNext ==
    \/ CallRouteRequest
    \/ CallClassifyIntent
    \/ CallExtractEntities
    \/ CallDetermineRoutingStrategy

RouterSpec == RouterInit /\ [][RouterNext]_vars

\* ------------------------------------------------------ claims on the router
\* A call of a router method has returned or raised.
RouteReplied == reply.op = "route_request"
ClassifyReplied == reply.op = "_classify_intent"
StrategyReplied == reply.op = "_determine_routing_strategy"

\* The decision a call of route_request returned.
Decision == reply.value.value

\* A location context is provided when it is a text that is not empty.
Provided(location) == location.type = "str" /\ location.chars # << >>

\* A value is a routing decision: an intent of the enumeration, a
\* confidence, entities, a strategy with its five fields, the input.
IsDecision(d) ==
    /\ {"intent", "confidence", "entities", "routing_strategy", "user_input"}
           \subseteq DOMAIN d
    /\ \E i \in 1..Len(UserIntent) : d.intent = UserIntent[i]
    /\ d.confidence \in Int
    /\ "locations" \in DOMAIN d.entities
    /\ DOMAIN d.routing_strategy =
           {"primary_agent", "workflow_type", "additional_agents",
            "parallel_processing", "priority_level"}
    /\ d.user_input = call.user_input

\* The pinned fallback decision; 0.1 is 6 sixtieths.
C11_Pinned(d) ==
    /\ d.intent = "general_information"
    /\ d.confidence = 6
    /\ d.entities =
           [locations |-> IF Provided(call.location)
                          THEN <<call.location.chars>> ELSE << >>]
    /\ d.routing_strategy.primary_agent = "orchestrator"
    /\ d.routing_strategy.workflow_type = "general_inquiry"
    /\ "fallback" \in DOMAIN d /\ d.fallback = TRUE

\* The classification or the extraction of the call's input fails.
C11_FailsInside ==
    \/ ClassifyIntent(call.user_input).kind = "raise"
    \/ ExtractEntities(call.user_input, call.location).kind = "raise"

\* C11: route_request is total: a call with any user_input and any location
\* context returns a decision and raises nothing; when the classification
\* or the extraction fails inside it, the decision is the pinned fallback:
\* general_information, confidence 0.1, locations = [location] if one is
\* provided else [], orchestrator, general_inquiry, fallback = true.
C11_RouteRequestIsTotal ==
    RouteReplied =>
        /\ reply.value.kind = "return"
        /\ IsDecision(Decision)
        /\ C11_FailsInside => C11_Pinned(Decision)

\* C11 witness: a call with None for the text and a location context got the
\* fallback decision.
C11_Witness ==
    /\ RouteReplied
    /\ C11_FailsInside /\ Provided(call.location)
    /\ reply.value.kind = "return" /\ "fallback" \in DOMAIN Decision

\* No keyword pattern, phrase or exact-match string of any intent of the
\* catalog matches the text (lower-cased, as the classifier reads it).
NoPatternMatches(text) ==
    \A i \in 1..Len(intent_patterns) :
        LET patterns == intent_patterns[i].patterns
            exact_matches == Get(patterns, "exact_matches", << >>)
        IN  /\ \A k \in 1..Len(patterns.keywords) :
                   ~SearchWord(patterns.keywords[k], Lower(text))
            /\ \A k \in 1..Len(patterns.phrases) :
                   ~Contains(Lower(text), patterns.phrases[k])
            /\ \A k \in 1..Len(exact_matches) :
                   exact_matches[k] # Strip(Lower(text))

\* C12: for a text in which nothing of the catalog matches, the empty text
\* among them, _classify_intent returns (general_information, 0.3); 0.3 is
\* 18 sixtieths.
C12_NoMatchIsGeneralInformation ==
    ( /\ ClassifyReplied
      /\ IsText(call.user_input)
      /\ NoPatternMatches(call.user_input.chars) ) =>
        /\ reply.value.kind = "return"
        /\ reply.value.value = [intent |-> "general_information", confidence |-> 18]

\* C12 witness: the classifier has answered for a text that is not empty
\* and in which nothing matches.
C12_Witness ==
    /\ ClassifyReplied
    /\ IsText(call.user_input) /\ call.user_input.chars # << >>
    /\ NoPatternMatches(call.user_input.chars)
    /\ reply.value.kind = "return"

\* A confidence, in sixtieths, lies in [0, 1].
InUnitInterval(confidence) == 0 <= confidence /\ confidence <= 60

\* C13: the confidence of every result of _classify_intent and of every
\* decision of route_request, the fallback decision included, lies in the
\* closed interval [0, 1].
C13_ConfidenceInUnitInterval ==
    /\ (ClassifyReplied /\ reply.value.kind = "return") =>
           InUnitInterval(reply.value.value.confidence)
    /\ (RouteReplied /\ reply.value.kind = "return") =>
           InUnitInterval(Decision.confidence)

\* C13 witness: the classifier has answered for a text in which so many
\* patterns of one intent match that its score exceeds 15.
C13_Witness ==
    /\ ClassifyReplied /\ reply.value.kind = "return"
    /\ \E i \in 1..Len(intent_patterns) :
           /\ intent_patterns[i].intent = reply.value.value.intent
           /\ Score(intent_patterns[i].patterns, Lower(call.user_input.chars)) > 60

\* The score of the i-th entry of the catalog for a text.
CatalogScore(i, text) == Score(intent_patterns[i].patterns, Lower(text))

\* The entry of the catalog the classifier is to choose: no entry scores
\* higher, and every entry before it scores lower.
IsFirstBest(i, text) ==
    /\ \A j \in 1..Len(intent_patterns) : CatalogScore(j, text) <= CatalogScore(i, text)
    /\ \A j \in 1..(i - 1) : CatalogScore(j, text) < CatalogScore(i, text)

\* C14: when an intent scores above 0, _classify_intent returns the intent of
\* the highest score, and among several intents of the highest score the
\* one that comes first in the catalog.
C14_BestIntentFirstInCatalog ==
    ( /\ ClassifyReplied
      /\ IsText(call.user_input)
      /\ \E i \in 1..Len(intent_patterns) : CatalogScore(i, call.user_input.chars) > 0 ) =>
        /\ reply.value.kind = "return"
        /\ \E i \in 1..Len(intent_patterns) :
               /\ IsFirstBest(i, call.user_input.chars)
               /\ reply.value.value.intent = intent_patterns[i].intent

\* C14 witness: the classifier has answered for a text in which two intents
\* share the highest score, which is above 0.
C14_Witness ==
    /\ ClassifyReplied
    /\ IsText(call.user_input)
    /\ \E i, j \in 1..Len(intent_patterns) :
           /\ i < j
           /\ IsFirstBest(i, call.user_input.chars)
           /\ CatalogScore(i, call.user_input.chars) > 0
           /\ CatalogScore(j, call.user_input.chars) = CatalogScore(i, call.user_input.chars)
           /\ reply.value.value.intent = intent_patterns[i].intent

\* The priority_level a strategy is to have for an intent, the entities and
\* a confidence in sixtieths; 0.9 is 54 sixtieths.
PriorityAgrees(intent, entities, confidence, strategy) ==
    strategy.priority_level =
        IF intent = "emergency_alert" THEN "critical"
        ELSE IF Get(entities, "urgency_indicators", {}) # {} \/ confidence > 54
             THEN "high"
             ELSE "normal"

\* C15: priority_level is 'critical' for emergency_alert whatever the urgency
\* indicators and the confidence; for every other intent it is 'high' exactly
\* when urgency_indicators is not empty or the confidence exceeds 0.9, and
\* 'normal' otherwise.
C15_PriorityLevel ==
    /\ StrategyReplied =>
           PriorityAgrees(call.intent, call.entities, call.confidence, reply.value)
    /\ (RouteReplied /\ reply.value.kind = "return") =>
           PriorityAgrees(Decision.intent, Decision.entities, Decision.confidence,
                          Decision.routing_strategy)

\* C15 witness: a strategy has been determined for an intent other than
\* emergency_alert, without urgency indicators and with a confidence of
\* exactly 0.9, and its priority_level is 'normal'.
C15_Witness ==
    /\ StrategyReplied
    /\ call.intent # "emergency_alert"
    /\ call.entities.urgency_indicators = {}
    /\ call.confidence = 54
    /\ reply.value.priority_level = "normal"

\* How often an agent occurs in a list of agents.
Occurrences(agent, additional_agents) ==
    Cardinality({ i \in 1..Len(additional_agents) : additional_agents[i] = agent })

\* The additional_agents a strategy is to have for an intent and the
\* entities.
AgentsAgree(intent, entities, strategy) ==
    LET facility_types == Get(entities, "facility_types", {})
        additional_agents == strategy.additional_agents
    IN  /\ \A i, j \in 1..Len(additional_agents) :
               i # j => additional_agents[i] # additional_agents[j]
        /\ IF Hospital \in facility_types \/ Clinic \in facility_types
           THEN Occurrences("resource_planning", additional_agents) = 1
           ELSE additional_agents = IntentStrategy(intent).additional_agents

\* C16: additional_agents holds no agent twice; when facility_types contains
\* 'hospital' or 'clinic', resource_planning occurs in it exactly once, also
\* for an intent whose default list holds it already; otherwise it is the
\* default list of the intent.
C16_AdditionalAgents ==
    /\ StrategyReplied => AgentsAgree(call.intent, call.entities, reply.value)
    /\ (RouteReplied /\ reply.value.kind = "return") =>
           AgentsAgree(Decision.intent, Decision.entities, Decision.routing_strategy)

\* C16 witness: a strategy has been determined for emergency_alert, whose
\* default list holds resource_planning, with a hospital among the facility
\* types.
C16_Witness ==
    /\ StrategyReplied
    /\ call.intent = "emergency_alert"
    /\ Hospital \in call.entities.facility_types
    /\ Occurrences("resource_planning", reply.value.additional_agents) = 1

\* The distinct locations of a call of route_request: those extracted from
\* the text, and the location context when one is provided.
DistinctLocations(user_input, location) ==
    ToSet(FindLocations(user_input.chars, Lower(user_input.chars)))
        \cup ( IF Provided(location) THEN { location.chars } ELSE {} )

\* The workflow_type a strategy is to have for an intent and a set of
\* distinct locations.
WorkflowTypeAgrees(intent, locations, strategy) ==
    strategy.workflow_type =
        IF Cardinality(locations) > 1
        THEN "comparative_analysis"
        ELSE IntentStrategy(intent).workflow_type

\* A decision that route_request computed, not the fallback decision.
ComputedDecision ==
    /\ RouteReplied /\ reply.value.kind = "return"
    /\ "fallback" \notin DOMAIN Decision

\* C17: workflow_type is 'comparative_analysis' exactly when the distinct
\* locations, those extracted from the text and the location context if one
\* is given, are more than one; otherwise it is the workflow_type of the
\* intent.
C17_ComparativeAnalysis ==
    /\ StrategyReplied =>
           WorkflowTypeAgrees(call.intent, call.entities.locations, reply.value)
    /\ ComputedDecision =>
           /\ Decision.entities.locations =
                  DistinctLocations(call.user_input, call.location)
           /\ WorkflowTypeAgrees(Decision.intent,
                                 DistinctLocations(call.user_input, call.location),
                                 Decision.routing_strategy)

\* C17 witness: route_request computed a decision for a text that names the
\* location of the context and no other, so that the two count as one, and
\* the workflow_type stayed that of the intent.
C17_Witness ==
    /\ ComputedDecision
    /\ Provided(call.location)
    /\ ToSet(FindLocations(call.user_input.chars, Lower(call.user_input.chars)))
           = { call.location.chars }
    /\ Decision.routing_strategy.workflow_type # "comparative_analysis"

\* --------------------------------------------------- claims on the contexts
\* An execution whose context is stored under the id is still in progress.
InProgress(workflow_id) ==
    \E e \in Executions :
        /\ Started(e) /\ ~Done(e)
        /\ local[e].workflow_id = workflow_id

\* C18: every context in the state store has, from its creation on, a status
\* that is one of RUNNING, COMPLETED and FAILED, and the context of an
\* execution still in progress has the status RUNNING.  The program breaks
\* this: _initialize_workflow stores a context without a status, and nothing
\* writes RUNNING.
C18_StatusFromCreation ==
    \A workflow_id \in DOMAIN workflow_state :
        /\ "status" \in DOMAIN workflow_state[workflow_id]
        /\ workflow_state[workflow_id].status \in {"RUNNING", "COMPLETED", "FAILED"}
        /\ InProgress(workflow_id) => workflow_state[workflow_id].status = "RUNNING"

\* A step is a call of get_workflow_status.
StatusAsked == reply'.op = "get_workflow_status"

\* C19: get_workflow_status(id) is read-only: at whatever point of the
\* executions it is called, the state store is after the call what it was
\* before; for an id in the store it returns the context stored under it,
\* and for an id not in the store it returns None and raises nothing.
C19_GetWorkflowStatusReadOnly ==
    [][ StatusAsked =>
            /\ workflow_state' = workflow_state
            /\ UNCHANGED workflowVars
            /\ reply'.value =
                   IF reply'.workflow_id \in DOMAIN workflow_state
                   THEN workflow_state[reply'.workflow_id]
                   ELSE PyNone ]_vars

\* C19 witness: get_workflow_status has returned the context of an execution
\* that is still in progress.
C19_Witness ==
    /\ reply.op = "get_workflow_status"
    /\ reply.workflow_id \in DOMAIN workflow_state
    /\ InProgress(reply.workflow_id)
    /\ reply.value = workflow_state[reply.workflow_id]

\* =================================================== the report's functions
\* The synchronous helpers of _compile_final_report and of
\* _execute_risk_assessment, each called once with arguments drawn from the
\* sets below.
MaxInsightCount == 3

\* The insights of a risk result: one without a rumor indicator, one with
\* 'rumor' capitalised, one with 'claim' in upper case inside a longer text.
RiskInsights == { InsightIcu, InsightRumor, InsightClaim }

InsightLists == UNION { [1..k -> RiskInsights] : k \in 0..MaxInsightCount }

\* Risk results for _extract_key_findings: with and without a risk_level.
FindingsRisks ==
    { [risk_level |-> "HIGH", insights |-> insights] : insights \in InsightLists }
    \cup { [insights |-> insights] : insights \in InsightLists }
    \cup { [risk_level |-> "LOW"] }

ResourceNames == <<"icu_beds", "ventilators", "ppe">>

\* What a resource report says of one resource: nothing, or a projection
\* with a priority or without one.
Projections ==
    { [priority |-> "CRITICAL", utilization_projected |-> 95],
      [priority |-> "HIGH", utilization_projected |-> 85],
      [utilization_projected |-> 50] }

\* resource_projections: the resources in the order of ResourceNames, those
\* of which the report says nothing left out.
ProjectionsOf(said) ==
    LET Said(i) == said[i] # PyNone
        kept == SelectSeq([i \in 1..Len(ResourceNames) |-> i], Said)
    IN  [ k \in 1..Len(kept) |-> <<ResourceNames[kept[k]], said[kept[k]]>> ]

\* Resource reports: the fallback, which has no resource_projections, and
\* reports with projections for none, some or all of the resources.
FindingsReports ==
    { ResourceFallback(EmptyDict, "Texas", "resource provider down") }
    \cup { [ location |-> "Texas", resource_projections |-> ProjectionsOf(said) ] :
               said \in [1..Len(ResourceNames) -> Projections \cup {PyNone}] }

\* Growth rates, in hundredths, on both sides of -0.1, 0.1 and 0.2 and on
\* them.
GrowthRates == { -20, -11, -10, -9, 0, 9, 10, 11, 20, 21, 25 }

\* Risk results for _extract_trend_indicator: with a growth rate of the
\* cases, without one, without trends of the cases, and without trends.
TrendRisks ==
    { [trends |-> [cases |-> [growth_rate |-> g]]] : g \in GrowthRates }
    \cup { [trends |-> [cases |-> [doubling_time |-> 7]]],
           [trends |-> [deaths |-> [growth_rate |-> 25]]],
           [trends |-> EmptyDict],
           RiskFallback("Texas", "risk provider down") }

RiskLevels == { "CRITICAL", "HIGH", "MODERATE", "LOW", "SEVERE" }

\* Guidance results for _assess_public_readiness: what the guidance agent
\* returns, with a risk_context, and what _generate_public_guidance
\* substitutes when the agent raised.
ReadinessGuidances ==
    { GuidancePayload([risk_level |-> level], "Texas", "general_public") :
          level \in RiskLevels }
    \cup { GuidanceFallback([risk_level |-> level], "Texas", "general_public",
                            "guidance provider down") : level \in RiskLevels }
    \cup { [risk_context |-> EmptyDict, key_recommendations |-> << >>] }

ReportCalls ==
    { [op |-> "_extract_key_findings", risk_analysis |-> r, resource_report |-> p] :
          r \in FindingsRisks, p \in FindingsReports }
    \cup { [op |-> "_extract_trend_indicator", risk_analysis |-> r] : r \in TrendRisks }
    \cup { [op |-> "_assess_public_readiness", guidance |-> g] :
               g \in ReadinessGuidances }
    \cup { [op |-> "_extract_potential_rumors", insights |-> insights] :
               insights \in InsightLists }

\* What a call of a helper gave its caller.
ReportReply(op, value) == [op |-> op, value |-> value]

CallExtractKeyFindings ==
    /\ call.op = "_extract_key_findings" /\ reply = NoReply
    /\ \E findings \in { ExtractKeyFindings(call.risk_analysis, EmptyDict,
                                            call.resource_report) } :
           reply' = ReportReply(call.op, findings)
    /\ UNCHANGED << workflowVars, call >>

CallExtractTrendIndicator ==
    /\ call.op = "_extract_trend_indicator" /\ reply = NoReply
    /\ \E label \in { ExtractTrendIndicator(call.risk_analysis, "cases") } :
           reply' = ReportReply(call.op, label)
    /\ UNCHANGED << workflowVars, call >>

CallAssessPublicReadiness ==
    /\ call.op = "_assess_public_readiness" /\ reply = NoReply
    /\ \E label \in { AssessPublicReadiness(call.guidance) } :
           reply' = ReportReply(call.op, label)
    /\ UNCHANGED << workflowVars, call >>

CallExtractPotentialRumors ==
    /\ call.op = "_extract_potential_rumors" /\ reply = NoReply
    /\ \E rumors \in { ExtractPotentialRumors(call.insights) } :
           reply' = ReportReply(call.op, rumors)
    /\ UNCHANGED << workflowVars, call >>

\* A workflow (PhoenixWorkflow(...)) and one call of one of its helpers; no
\* execution runs.
ReportInit ==
    /\ call \in ReportCalls
    /\ reply = NoReply
    /\ agents = [data_agent |-> TRUE, guidance_agent |-> TRUE, resource_agent |-> TRUE]
    /\ workflow_state = EmptyDict
    /\ now = 0
    /\ pc = [e \in Executions |-> "idle"]
    /\ local = [e \in Executions |-> NoLocal]
    /\ outcome = [e \in Executions |-> NoOutcome]
    /\ trace = [e \in Executions |-> << >>]
    /\ creator = EmptyDict
    /\ solo = TRUE

ReportNext ==
    \/ CallExtractKeyFindings
    \/ CallExtractTrendIndicator
    \/ CallAssessPublicReadiness
    \/ CallExtractPotentialRumors

ReportSpec == ReportInit /\ [][ReportNext]_vars

\* --------------------------------------------------- claims on the report
FindingsReplied == reply.op = "_extract_key_findings"

\* The resources of a report whose projection has priority CRITICAL.
CriticalResources(resource_report) ==
    IF "resource_projections" \notin DOMAIN resource_report THEN {}
    ELSE LET projections == resource_report["resource_projections"]
         IN  { projections[i][1] : i \in
                   { j \in 1..Len(projections) :
                         /\ "priority" \in DOMAIN projections[j][2]
                         /\ projections[j][2].priority = "CRITICAL" } }

\* A finding is the aggregated shortage line.
IsShortageLine(finding) == finding[1] = "Critical resource shortages: "

\* The resources a shortage line names.
NamedIn(finding) == { finding[i] : i \in 2..Len(finding) }

\* C21: key_findings is the risk-level line, then at most the first 2
\* insights of the risk result, then at most one aggregated shortage line,
\* which is there exactly when a resource projection has priority CRITICAL
\* and names every such resource; the list has at most 5 entries.
C21_KeyFindings ==
    FindingsReplied =>
        LET findings == reply.value
            insights == Get(call.risk_analysis, "insights", << >>)
            shown == IF Len(insights) < 2 THEN Len(insights) ELSE 2
            critical == CriticalResources(call.resource_report)
            lines == { i \in 1..Len(findings) : IsShortageLine(findings[i]) }
        IN  /\ Len(findings) <= 5
            /\ Len(findings) = 1 + shown + (IF critical # {} THEN 1 ELSE 0)
            /\ findings[1] = << "Outbreak risk level: ",
                                Get(call.risk_analysis, "risk_level", "UNKNOWN") >>
            /\ \A i \in 1..shown : findings[1 + i] = insights[i]
            /\ lines = IF critical # {} THEN { Len(findings) } ELSE {}
            /\ \A i \in lines : NamedIn(findings[i]) = critical

\* C21 witness: key findings were extracted from a risk result with more
\* than two insights and a report with two resources of priority CRITICAL.
C21_Witness ==
    /\ FindingsReplied
    /\ Len(Get(call.risk_analysis, "insights", << >>)) > 2
    /\ Cardinality(CriticalResources(call.resource_report)) = 2
    /\ Len(reply.value) = 4

TrendReplied == reply.op = "_extract_trend_indicator"

\* The growth rate of the cases in a risk result, 0 when the result has no
\* trends, no trends of the cases, or no growth rate among them.
GrowthRateOf(risk_analysis) ==
    IF "trends" \notin DOMAIN risk_analysis THEN 0
    ELSE IF "cases" \notin DOMAIN risk_analysis.trends THEN 0
    ELSE IF "growth_rate" \notin DOMAIN risk_analysis.trends.cases THEN 0
    ELSE risk_analysis.trends.cases.growth_rate

\* C22: case_trends is 'rapidly increasing' for a growth rate above 0.2,
\* 'increasing' for one above 0.1 and at most 0.2, 'stable' for one above
\* -0.1 and at most 0.1, 'decreasing' for one of at most -0.1; a risk result
\* without trends or without a growth rate counts as growth rate 0 and gives
\* 'stable'.  Rates are in hundredths.
C22_CaseTrend ==
    TrendReplied =>
        LET growth_rate == GrowthRateOf(call.risk_analysis)
        IN  /\ growth_rate > 20 => reply.value = "RAPIDLY INCREASING"
            /\ (10 < growth_rate /\ growth_rate <= 20) => reply.value = "INCREASING"
            /\ (-10 < growth_rate /\ growth_rate <= 10) => reply.value = "STABLE"
            /\ growth_rate <= -10 => reply.value = "DECREASING"
            /\ "trends" \notin DOMAIN call.risk_analysis => reply.value = "STABLE"

\* C22 witness: the trend was read from a risk result whose growth rate is
\* exactly 0.2, and is 'increasing'.
C22_Witness ==
    /\ TrendReplied
    /\ GrowthRateOf(call.risk_analysis) = 20
    /\ reply.value = "INCREASING"

\* The substrings that make an insight a potential rumor.
RumorIndicators ==
    { <<"r","u","m","o","r">>, <<"c","l","a","i","m">>, <<"r","e","p","o","r","t">>,
      <<"s","o","c","i","a","l"," ","m","e","d","i","a">>,
      <<"u","n","v","e","r","i","f","i","e","d">> }

\* The places of the insights that hold a rumor indicator, in whatever case.
MatchingPlaces(insights) ==
    { i \in 1..Len(insights) :
          \E indicator \in RumorIndicators : Contains(Lower(insights[i]), indicator) }

\* The first (at most) 3 insights that hold a rumor indicator, in their
\* original order.
FirstThreeMatching(insights) ==
    LET places == MatchingPlaces(insights)
        count == IF Cardinality(places) < 3 THEN Cardinality(places) ELSE 3
        Place(k) == CHOOSE i \in places : Cardinality({ j \in places : j <= i }) = k
    IN  [ k \in 1..count |-> insights[Place(k)] ]

\* The insights the risk call of execution e returned (it returned a
\* mapping).
InsightsOf(e) == Get(OutcomeOf(e, "risk").value.items, "insights", << >>)

\* C23: validate_rumors is called only when the risk call returned normally
\* and an insight it returned holds a rumor indicator (rumor, claim, report,
\* social media, unverified, in whatever case); it is called with the first
\* at most 3 such insights in their original order, and what it returns is
\* attached to the risk result under rumor_validation; when no insight holds
\* an indicator it is not called and the risk result gets no
\* rumor_validation.
C23_RumorValidation ==
    \A e \in Executions :
        /\ Called(e, "rumor") =>
               /\ ReturnedMapping(e, "risk")
               /\ MatchingPlaces(InsightsOf(e)) # {}
               /\ Len(ArgumentsOf(e, "rumor").rumors) <= 3
               /\ ArgumentsOf(e, "rumor").rumors = FirstThreeMatching(InsightsOf(e))
        /\ (Ended(e, "rumor") /\ OutcomeOf(e, "rumor").kind = "return") =>
               /\ Called(e, "guidance")
               /\ "rumor_validation" \in
                      DOMAIN ArgumentsOf(e, "guidance").risk_analysis.items
               /\ ArgumentsOf(e, "guidance").risk_analysis.items["rumor_validation"]
                      = OutcomeOf(e, "rumor").value
        /\ (ReturnedMapping(e, "risk") /\ MatchingPlaces(InsightsOf(e)) = {}) =>
               /\ ~Called(e, "rumor")
               /\ Called(e, "guidance")
               /\ "rumor_validation" \notin
                      DOMAIN ArgumentsOf(e, "guidance").risk_analysis.items

\* C23 witness: the risk call returned four insights that hold an indicator,
\* validate_rumors was called with three of them and returned, and the
\* guidance call got the risk result with the validation attached.
C23_Witness ==
    \E e \in Executions :
        /\ ReturnedMapping(e, "risk")
        /\ Cardinality(MatchingPlaces(InsightsOf(e))) > 3
        /\ Ended(e, "rumor") /\ OutcomeOf(e, "rumor").kind = "return"
        /\ Len(ArgumentsOf(e, "rumor").rumors) = 3
        /\ Called(e, "guidance")

\* The stages execution e recorded as current_stage under its id, in order.
StagesOf(e) ==
    LET recorded == SelectSeq(trace[e], IsStageEvent)
    IN  [ i \in 1..Len(recorded) |-> recorded[i].what ]

\* C24 (as claimed): in an execution that returns a report the stages
\* recorded as current_stage under its id are, in order, exactly
\* DATA_COLLECTION, GUIDANCE_GENERATION, RESOURCE_PLANNING,
\* REPORT_COMPILATION, FINALIZATION; RISK_ASSESSMENT is recorded in no
\* execution.  An execution that starts in the second of an earlier one
\* finds a context under its id and records INITIALIZATION in it.
C24_RecordedStages ==
    \A e \in Executions :
        /\ (Done(e) /\ outcome[e].kind = "report") =>
               StagesOf(e) = << DATA_COLLECTION, GUIDANCE_GENERATION,
                                RESOURCE_PLANNING, REPORT_COMPILATION, FINALIZATION >>
        /\ \A i \in 1..Len(StagesOf(e)) : StagesOf(e)[i] # RISK_ASSESSMENT

\* ------------------------------------------- further claims on the router
ExtractReplied == reply.op = "_extract_entities"

\* No word of the text begins with a capital letter.
NoCapitalizedWord(text) ==
    \A i \in 1..Len(text) :
        WordStart(text, i) => \A k \in 1..Len(UpperCase) : text[i] # UpperCase[k]

\* C25 (as claimed): location extraction looks at capitalization: for a
\* text without a capitalized word and without a location context the
\* extracted locations are empty, and such a text alone does not turn the
\* workflow_type into 'comparative_analysis'.  The location patterns are
\* applied with re.IGNORECASE, so two words in lower case match the pattern
\* of the city names.
C25_LocationsNeedCapitals ==
    /\ ( /\ ExtractReplied
         /\ IsText(call.user_input)
         /\ NoCapitalizedWord(call.user_input.chars)
         /\ ~Provided(call.location_context) ) =>
           /\ reply.value.kind = "return"
           /\ reply.value.value.locations = {}
    /\ ( /\ ComputedDecision
         /\ NoCapitalizedWord(call.user_input.chars)
         /\ ~Provided(call.location) ) =>
           /\ Decision.entities.locations = {}
           /\ Decision.routing_strategy.workflow_type # "comparative_analysis"

\* The primary agent of a strategy is not among its additional agents.
PrimaryNotAdditional(strategy) ==
    \A i \in 1..Len(strategy.additional_agents) :
        strategy.additional_agents[i] # strategy.primary_agent

\* C28 (as claimed): in every strategy route_request returns, for every
\* intent and every entity bag, primary_agent is not a member of
\* additional_agents.  For resource_planning and hospital_capacity the
\* primary agent is resource_planning, and a hospital or a clinic among the
\* facility types appends resource_planning to the additional agents.
C28_PrimaryNotAdditional ==
    /\ (RouteReplied /\ reply.value.kind = "return") =>
           PrimaryNotAdditional(Decision.routing_strategy)
    /\ StrategyReplied => PrimaryNotAdditional(reply.value)

\* ------------------------------------------- further claims on the report
\* The report execution e returned (it returned one).
ReportOf(e) == outcome[e].report.items

\* The fixed map from a risk level to the label of the public readiness,
\* 'unknown' for a level outside the four.
C26_Label(risk_level) ==
    CASE risk_level = "CRITICAL" -> "EMERGENCY PROTOCOLS"
      [] risk_level = "HIGH" -> "ENHANCED READINESS"
      [] risk_level = "MODERATE" -> "STANDARD READINESS"
      [] risk_level = "LOW" -> "ROUTINE STATUS"
      [] OTHER -> "UNKNOWN"

\* C26 (as claimed): the public_readiness of the dashboard is the label of
\* the risk_level that determines the threat_level of the report, that of
\* the risk component, also when the guidance stage fell back.  The fallback
\* guidance carries the level as risk_level and has no risk_context, where
\* _assess_public_readiness looks for it.
C26_PublicReadiness ==
    \A e \in Executions :
        outcome[e].kind = "report" =>
            LET risk_level ==
                    Get(ReportOf(e).components.risk_assessment.items,
                        "risk_level", "UNKNOWN")
            IN  /\ ReportOf(e).phoenix_intelligence_summary.threat_level
                       = ThreatLevel(risk_level)
                /\ ReportOf(e).executive_dashboard.risk_indicators.public_readiness
                       = C26_Label(risk_level)

\* ------------------------------------------- further claims on the contexts
\* The id of execution e was not in the store when e started: its
\* INITIALIZATION transition found no context.
FreshId(e) == Places(e, "stage_dropped", INITIALIZATION) # {}

\* The context under the id of execution e is the one e created.
OwnContext(e) == HasContext(e) /\ creator[local[e].workflow_id] = e

\* The places of the history of e where e created its context.
Creations(e) == { i \in 1..Len(trace[e]) : trace[e][i].op = "initialize" }

\* C27: in an execution whose id is not in the store when it starts, the
\* INITIALIZATION transition comes before the context exists and is dropped:
\* the current_stage of its context is never INITIALIZATION; the context is
\* created without a current_stage and has none until the DATA_COLLECTION
\* transition, the first the execution records; and a context whose
\* initialization failed has status FAILED and no current_stage.
C27_InitializationIsDropped ==
    \A e \in Executions :
        (Started(e) /\ FreshId(e)) =>
            /\ \A i \in 1..Len(StagesOf(e)) : StagesOf(e)[i] # INITIALIZATION
            /\ OwnContext(e) =>
                   Get(ContextOf(e), "current_stage", NoneText) # INITIALIZATION
            /\ \A i \in Creations(e) :
                   /\ "current_stage" \notin DOMAIN trace[e][i].arg.items
                   /\ \A j \in 1..(i - 1) : trace[e][j].op # "stage"
                   /\ i < Len(trace[e]) =>
                          \/ trace[e][i + 1] = StageEvent(DATA_COLLECTION)
                          \/ trace[e][i + 1].op = "status"
            /\ (Done(e) /\ outcome[e] = Raised(ConfigurationErrorMessage)
                        /\ OwnContext(e)) =>
                   /\ "status" \in DOMAIN ContextOf(e)
                   /\ ContextOf(e)["status"] = "FAILED"
                   /\ "current_stage" \notin DOMAIN ContextOf(e)

\* C27 witness: an execution with a new id created its context and failed
\* in the initialization, a collaborator being unset.
C27_Witness ==
    \E e \in Executions :
        /\ FreshId(e) /\ Creations(e) # {}
        /\ Done(e) /\ outcome[e] = Raised(ConfigurationErrorMessage)
        /\ OwnContext(e)
        /\ ContextOf(e)["status"] = "FAILED"

\* C29 (as claimed): the location of every report, and the location in its
\* contact strings, is the location execute_full_analysis was called with,
\* when the risk stage fell back and when the risk collaborator returned a
\* payload of the contracted shape (risk_score, risk_level, confidence,
\* insights, trends).  The report takes its location from the risk result,
\* and a payload of that shape has none.
C29_ReportLocation ==
    \A e \in Executions :
        outcome[e].kind = "report" =>
            /\ ReportOf(e).location = local[e].location
            /\ ReportOf(e).contact_information.local_health_department
                   = <<local[e].location, " Health Department">>
            /\ ReportOf(e).contact_information.emergency_management
                   = <<local[e].location, " Emergency Management">>

\* The executions that ran under an id.
WritersOf(workflow_id) ==
    { e \in Executions : Started(e) /\ local[e].workflow_id = workflow_id }

IsEntry(event) == event.op \in {"stage", "stage_dropped"}

\* The stages execution e entered, recorded or not, in order.
EnteredBy(e) == SelectSeq(trace[e], IsEntry)

\* C30 (as claimed): for a context written by a single execution, status
\* COMPLETED implies that current_stage is FINALIZATION, status FAILED
\* implies that current_stage is the last stage the execution entered before
\* the failure, and no status is set while a collaborator call of the
\* execution is pending.  An execution that fails in the initialization has
\* entered INITIALIZATION, which was not recorded, and its context is FAILED
\* without a current_stage.
C30_StatusAndStage ==
    \A workflow_id \in DOMAIN workflow_state :
        \A e \in WritersOf(workflow_id) :
            WritersOf(workflow_id) = {e} =>
                LET context == workflow_state[workflow_id]
                    status == Get(context, "status", NoneText)
                IN  /\ status = "COMPLETED" =>
                           /\ "current_stage" \in DOMAIN context
                           /\ context["current_stage"] = FINALIZATION
                    /\ status = "FAILED" =>
                           /\ "current_stage" \in DOMAIN context
                           /\ context["current_stage"]
                                  = EnteredBy(e)[Len(EnteredBy(e))].what
                    /\ pc[e] \in Collaborators => "status" \notin DOMAIN context

====
